---- MODULE Spec2Model ----
(***************************************************************************)
(* A model of the snapshot-to-history extraction engine of                 *)
(* stellarisdashboard (timeline.py, TimelineExtractor).                    *)
(*                                                                         *)
(* The persisted store of one game is the variable db, a record of tables; *)
(* each table is the sequence of its rows in insertion order, and a row is *)
(* known by its position.  One call of process_gamestate is one step: it   *)
(* works on a session, a working copy of the store, and ends in a commit   *)
(* (db' is the session's store) or in a rollback (db' = db).  The parsed   *)
(* save file is the input of the step.                                     *)
(*                                                                         *)
(* A handler that reads a row and then writes is modelled by two           *)
(* operators: the query, and the update that is given the row found.       *)
(* An exception is the flag err of the session: once set, the remaining    *)
(* handlers of the pass leave the session alone.                           *)
(*                                                                         *)
(* The save files of the model carry no trade deals, hyperlanes,           *)
(* technology, traditions, ascension perks, edicts, terraforming processes *)
(* or planet modifiers; the handlers of these sections do nothing on such  *)
(* files and their tables are not part of db.  Of the population tables    *)
(* the rows by species and by faction are kept.                            *)
(* The CombatParticipant rows of a battle, which no handler reads, are not *)
(* kept either.                                                            *)
(***************************************************************************)
EXTENDS Integers, Sequences, FiniteSets, TLC

VARIABLES
    db,          \* the committed store of the game
    now,         \* day of the latest snapshot handed to process_gamestate
    calls,       \* number of process_gamestate calls so far
    ret,         \* how the latest call ended
    snap,        \* the gamestate_dict of the latest call
    prev_ret,    \* how the call before the latest ended
    prev_snap,   \* the gamestate_dict of the call before the latest
    debug_mode,  \* config.CONFIG.debug_mode
    tie_policy,  \* the row an ORDER BY ... first() returns among equal keys
    extractor,   \* the per-snapshot attributes of the TimelineExtractor
    gamestate,   \* token_value_stream: the text being lexed
    start_index, \* token_value_stream: the read position (0-based)
    line_number, \* token_value_stream: the current line
    tokens,      \* token_value_stream: the (text, line) pairs yielded so far
    iterations,  \* token_value_stream: iterations of the while loop so far
    stop_event,  \* f_monitor_saves: the threading.Event is set
    pc,          \* f_monitor_saves: the statement the monitor is at
    nothing_new, \* f_monitor_saves: the flag of the current poll
    pending,     \* f_monitor_saves: save files the reader's generator still holds
    shutdowns,   \* f_monitor_saves: calls of save_reader.shutdown() so far
    session_leaders, \* get_leader_dicts: the Leader rows, ordered by date_hired
    leader_dicts,    \* get_leader_dicts: the list returned
    dicts_returned   \* get_leader_dicts: the function has returned

\* the state of the extractor and its store
tlevars == <<db, now, calls, ret, snap, prev_ret, prev_snap, debug_mode, tie_policy,
             extractor>>

\* the state of the lexer
lexvars == <<gamestate, start_index, line_number, tokens, iterations>>

\* the state of the save file monitor
monvars == <<stop_event, pc, nothing_new, pending, shutdowns>>

\* the state of the dashboard's leader list
dashvars == <<session_leaders, leader_dicts, dicts_returned>>

vars == <<tlevars, lexvars, monvars, dashvars>>

-----------------------------------------------------------------------------
(* Bounds of the model *)

\* process_gamestate calls in one behaviour
MaxCalls == 3

\* characters of a text handed to token_value_stream
MaxLen == 3

\* iterations of the while loop of token_value_stream in one behaviour
\* the longest text of the line-counting specification
MaxText == 4

\* Leader rows of the store handed to get_leader_dicts
MaxLeaders == 2

MaxIter == 5

-----------------------------------------------------------------------------
(* Values *)

\* Python's None where an id is expected (in-game ids are >= 0)
NoneId == 0 - 1
\* Python's None where a day is expected
NoDay == 0 - 1000000

\* the staleness window, written 5 * 360 wherever the code uses it
StaleDays == 5 * 360

\* models.date_to_days: "YYYY.MM.DD" -> days since 2200.01.01 (30-day months)
date_to_days(date_str) ==
    (date_str[1] - 2200) * 360 + (date_str[2] - 1) * 30 + (date_str[3] - 1)

SUPPORTED_COUNTRY_TYPES == {"default", "fallen_empire", "awakened_fallen_empire"}

\* config.CONFIG.only_read_player_history
only_read_player_history == FALSE

\* config.CONFIG.extract_system_ownership
extract_system_ownership == TRUE

Max(S) == CHOOSE x \in S : \A y \in S : y <= x
Min(S) == CHOOSE x \in S : \A y \in S : x <= y

\* the members of a list
Range(seq) == {seq[i] : i \in DOMAIN seq}

\* the indices of the rows of a table
Rows(table) == DOMAIN table

\* query.one_or_none() over the rows I of a table: 0 stands for None.  Every
\* such query of the model is over a key that rows are only added under when
\* the query found none.
OneOrNone(I) == IF I = {} THEN 0 ELSE Min(I)

\* query.order_by(key.desc()).first() over the rows I of a table, key given
\* as a function on I: 0 stands for None.  SQL leaves the order of rows with
\* equal keys open; tie_policy is the choice the database engine makes.
FirstDesc(I, key) ==
    IF I = {} THEN 0
    ELSE LET T == {i \in I : \A j \in I : key[j] <= key[i]}
         IN IF tie_policy = "oldest" THEN Min(T) ELSE Max(T)

\* dict(zip([f"x_{i}" for i in range(1, 6)], sorted(S))) read back as a set:
\* the five columns hold the five smallest members
Columns5(S) == {x \in S : Cardinality({y \in S : y < x}) < 5}

-----------------------------------------------------------------------------
(* Rows *)

\* models.HistoricalEvent(...) with the columns a call does not pass left None
NewEvent(event_type, country, start, end, known) ==
    [event_type |-> event_type, country |-> country, target_country |-> NoneId,
     leader |-> NoneId, war |-> 0, system |-> NoneId, planet |-> NoneId,
     faction |-> 0, description |-> "",
     start_date_days |-> start, end_date_days |-> end,
     event_is_known_to_player |-> known]

EmptyDb ==
    [game |-> FALSE,
     game_states |-> <<>>,
     countries |-> <<>>,
     governments |-> <<>>,
     country_data |-> <<>>,
     budget_items |-> <<>>,
     descriptions |-> <<>>,
     events |-> <<>>,
     systems |-> <<>>,
     system_ownership |-> <<>>,
     wars |-> <<>>,
     war_participants |-> <<>>,
     combats |-> <<>>,
     planets |-> <<>>,
     leaders |-> <<>>,
     factions |-> <<>>,
     species |-> <<>>,
     species_traits |-> <<>>,
     pop_stats_by_faction |-> <<>>]

\* the row of models.Country with the in-game id, 0 when there is none
CountryRow(d, country_id) ==
    OneOrNone({i \in Rows(d.countries) :
                  d.countries[i].country_id_in_game = country_id})

\* the row of models.Leader with the in-game id, 0 when there is none
LeaderRow(d, leader_id) ==
    OneOrNone({i \in Rows(d.leaders) :
                  d.leaders[i].leader_id_in_game = leader_id})

\* the row of models.Planet with the in-game id, 0 when there is none
PlanetRow(d, planet_id) ==
    OneOrNone({i \in Rows(d.planets) :
                  d.planets[i].planet_id_in_game = planet_id})

\* the row of models.System with the in-game id, 0 when there is none
SystemRow(d, system_id) ==
    OneOrNone({i \in Rows(d.systems) :
                  d.systems[i].system_id_in_game = system_id})

\* the System row with the in-game id exists
HasSystem(d, system_id) ==
    \E i \in Rows(d.systems) : d.systems[i].system_id_in_game = system_id

\* models.Country.has_met_player
has_met_player(d, country_id) ==
    \E i \in Rows(d.countries) :
        /\ d.countries[i].country_id_in_game = country_id
        /\ d.countries[i].first_player_contact_date # NoDay

\* models.Country.is_player of the country with the in-game id
is_player(d, country_id) ==
    \E i \in Rows(d.countries) :
        /\ d.countries[i].country_id_in_game = country_id
        /\ d.countries[i].is_player

\* models.Country.get_most_recent_data: the CountryData row of the country
\* with the latest date, 0 when there is none
get_most_recent_data(d, country_id) ==
    LET I == {i \in Rows(d.country_data) : d.country_data[i].country = country_id}
    IN FirstDesc(I, [i \in I |-> d.country_data[i].date])

\* models.Attitude.reveals_economy_info, reveals_demographic_info
reveals_economy_info(attitude) ==
    attitude \in {"is_player", "friendly", "protective", "loyal"}

reveals_demographic_info(attitude) ==
    attitude \in {"is_player", "friendly", "protective", "loyal"}

\* country_data is not None and
\* country_data.attitude_towards_player.reveals_economy_info()
RevealsEconomy(d, cd) ==
    cd # 0 /\ reveals_economy_info(d.country_data[cd].attitude_towards_player)

RevealsDemographics(d, cd) ==
    cd # 0 /\ reveals_demographic_info(d.country_data[cd].attitude_towards_player)

\* game_info.is_colonizable_planet, is_destroyed_planet,
\* is_colonizable_megastructure
is_colonizable_planet(planet_class) ==
    planet_class \in {"pc_continental", "pc_habitat", "pc_ringworld_habitable"}

is_destroyed_planet(planet_class) == planet_class \in {"pc_shattered"}

is_colonizable_megastructure(planet_class) ==
    planet_class \in {"pc_habitat", "pc_ringworld_habitable"}

-----------------------------------------------------------------------------
(* The session of one process_gamestate call: the working copy of the      *)
(* store, whether an exception was raised, and the extractor's fields.     *)

NewSession(d, date, player) ==
    [db |-> d, err |-> FALSE, date |-> date, player |-> player,
     player_country_data |-> 0]

Raise(s) == [s EXCEPT !.err = TRUE]

\* session.add of a new row
AddRow(s, table, row) == [s EXCEPT !.db[table] = Append(@, row)]

\* session.add of a new HistoricalEvent
AddEvent(s, event) == [s EXCEPT !.db.events = Append(@, event)]

\* _get_or_add_shared_description: the row with the text, added when the
\* query finds none
AddEveryDescription(s, text) == AddRow(s, "descriptions", text)

_get_or_add_shared_description(s, text) ==
    IF \E i \in Rows(s.db.descriptions) : s.db.descriptions[i] = text
    THEN s
    ELSE AddRow(s, "descriptions", text)

\* session.delete(game_state): the GameState row and, by the cascade of its
\* relationships, the CountryData rows of that snapshot with their BudgetItems
\* and their PopStatsByFaction rows
DeleteGameState(d, date) ==
    [d EXCEPT !.game_states = SelectSeq(@, LAMBDA gs : gs.date # date),
              !.country_data = SelectSeq(@, LAMBDA cd : cd.date # date),
              !.budget_items = SelectSeq(@, LAMBDA b : b.date # date),
              !.pop_stats_by_faction = SelectSeq(@, LAMBDA ps : ps.date # date)]

\* process_gamestate, lines 99-102: an existing GameState of the day is deleted
KeepGameState(s) == s

ReplaceGameState(s) ==
    IF \E i \in Rows(s.db.game_states) : s.db.game_states[i].date = s.date
    THEN [s EXCEPT !.db = DeleteGameState(@, s.date)]
    ELSE s

-----------------------------------------------------------------------------
(* Species *)

\* gamestate_dict["species"][species_id_in_game]: the position in the list
\* that a Python index names, 0 when the index is out of range
SpeciesIndex(g, species_id_in_game) ==
    IF species_id_in_game >= 0 /\ species_id_in_game < Len(g.species)
    THEN species_id_in_game + 1
    ELSE IF species_id_in_game < 0 /\ 0 - species_id_in_game <= Len(g.species)
    THEN Len(g.species) + species_id_in_game + 1
    ELSE 0

\* _get_or_add_species, lines 891-899: the traits of a new Species row
RECURSIVE AddTraits(_, _, _)
AddTraits(s, species_id_in_game, traits) ==
    IF traits = <<>> THEN s
    ELSE AddTraits(AddRow(_get_or_add_shared_description(s, Head(traits)),
                          "species_traits",
                          [species |-> species_id_in_game,
                           name |-> Head(traits)]),
                   species_id_in_game, Tail(traits))

\* _get_or_add_species; the list lookup raises when the index is out of range
_get_or_add_species(s, g, species_id_in_game) ==
    IF SpeciesIndex(g, species_id_in_game) = 0 THEN Raise(s)
    ELSE IF \E i \in Rows(s.db.species) :
                s.db.species[i].species_id_in_game = species_id_in_game
    THEN s
    ELSE AddTraits(
             AddRow(s, "species",
                    [species_id_in_game |-> species_id_in_game,
                     species_name |->
                         g.species[SpeciesIndex(g, species_id_in_game)].name,
                     species_class |->
                         g.species[SpeciesIndex(g, species_id_in_game)].class]),
             species_id_in_game,
             g.species[SpeciesIndex(g, species_id_in_game)].traits)

\* _extract_species_and_initialize_species_by_id_dict: the species of the
\* tree from the index on
RECURSIVE ExtractSpecies(_, _, _)
ExtractSpecies(s, g, species_index) ==
    IF species_index >= Len(g.species) THEN s
    ELSE ExtractSpecies(_get_or_add_species(s, g, species_index), g,
                        species_index + 1)

_extract_species_and_initialize_species_by_id_dict(s, g) ==
    ExtractSpecies(s, g, 0)

-----------------------------------------------------------------------------
(* Leaders *)

\* _extract_country_leaders, lines 1086-1107: one of the Leader rows the
\* query for the active leaders of the country returned.  get_leader_name
\* raises when the tree has no entry for an owned leader.
CheckKnownLeader(s, g, cdict, l) ==
    LET leader == s.db.leaders[l]
        owned == leader.leader_id_in_game \in Range(cdict.owned_leaders)
    IN IF owned /\ leader.leader_id_in_game \notin DOMAIN g.leaders
       THEN Raise(s)
       ELSE IF owned /\ (\/ g.leaders[leader.leader_id_in_game].name
                               = leader.leader_name
                         \/ leader.last_date >= s.date - 3 * 360)
       THEN s
       ELSE AddEvent(
                [s EXCEPT !.db.leaders[l].is_active = FALSE],
                [NewEvent("leader_died", leader.country,
                          leader.last_date, leader.last_date,
                          RevealsEconomy(s.db, get_most_recent_data(
                                                   s.db, leader.country)))
                    EXCEPT !.leader = leader.leader_id_in_game])

RECURSIVE CheckKnownLeaders(_, _, _, _)
CheckKnownLeaders(s, g, cdict, L) ==
    IF L = {} \/ s.err THEN s
    ELSE CheckKnownLeaders(CheckKnownLeader(s, g, cdict, Min(L)),
                           g, cdict, L \ {Min(L)})

\* _add_new_leader, lines 1150-1174: the Leader row and its
\* leader_recruited event
AddLeader(s, country_id, leader_id, leader_dict) ==
    IF s.err THEN s
    ELSE AddEvent(
        AddRow(s, "leaders",
               [leader_id_in_game |-> leader_id,
                country |-> country_id,
                leader_name |-> leader_dict.name,
                last_level |-> leader_dict.level,
                date_hired |-> Min({s.date, date_to_days(leader_dict.date)}),
                is_active |-> TRUE,
                last_date |-> NoDay]),
        [NewEvent("leader_recruited", country_id,
                  Min({s.date, date_to_days(leader_dict.date)}), s.date,
                  RevealsEconomy(s.db, get_most_recent_data(s.db, country_id)))
            EXCEPT !.leader = leader_id])

\* _add_new_leader: the species of the leader is looked up first
_add_new_leader(s, g, country_id, leader_id, leader_dict) ==
    AddLeader(_get_or_add_species(s, g, leader_dict.species_index),
              country_id, leader_id, leader_dict)

\* line 1120 with <= for <
LevelNotBelow(last_level, level) == last_level <= level

\* line 1120: the level of the tree is above the recorded one
LevelRose(last_level, level) == last_level < level

\* _extract_country_leaders, lines 1117-1130: the Leader row l of an owned
\* leader is marked as seen, with a level_up event when the level rose
SeenLeader(s, country_id, l, level) ==
    IF LevelRose(s.db.leaders[l].last_level, level)
    THEN AddEvent(
             _get_or_add_shared_description(
                 [s EXCEPT !.db.leaders[l].is_active = TRUE,
                           !.db.leaders[l].last_date = s.date,
                           !.db.leaders[l].last_level = level],
                 ToString(level)),
             [NewEvent("level_up", country_id, s.date, NoDay,
                       is_player(s.db, country_id))
                 EXCEPT !.leader = s.db.leaders[l].leader_id_in_game,
                        !.description = ToString(level)])
    ELSE [s EXCEPT !.db.leaders[l].is_active = TRUE,
                   !.db.leaders[l].last_date = s.date]

\* lines 1114-1130, for a leader _add_new_leader was called for
SeenNewLeader(s, country_id, leader_id, level) ==
    IF s.err THEN s
    ELSE SeenLeader(s, country_id, LeaderRow(s.db, leader_id), level)

\* _extract_country_leaders, lines 1110-1130: one id of the owned leaders
UpdateOwnedLeader(s, g, country_id, leader_id) ==
    IF leader_id \notin DOMAIN g.leaders THEN s
    ELSE IF LeaderRow(s.db, leader_id) = 0
    THEN SeenNewLeader(_add_new_leader(s, g, country_id, leader_id,
                                       g.leaders[leader_id]),
                       country_id, leader_id, g.leaders[leader_id].level)
    ELSE SeenLeader(s, country_id, LeaderRow(s.db, leader_id),
                    g.leaders[leader_id].level)

RECURSIVE UpdateOwnedLeaders(_, _, _, _)
UpdateOwnedLeaders(s, g, country_id, ids) ==
    IF ids = <<>> \/ s.err THEN s
    ELSE UpdateOwnedLeaders(UpdateOwnedLeader(s, g, country_id, Head(ids)),
                            g, country_id, Tail(ids))

_extract_country_leaders(s, g, country_id) ==
    UpdateOwnedLeaders(
        CheckKnownLeaders(s, g, g.country[country_id],
                          {l \in Rows(s.db.leaders) :
                              /\ s.db.leaders[l].country = country_id
                              /\ s.db.leaders[l].is_active}),
        g, country_id, g.country[country_id].owned_leaders)

\* _get_current_ruler: the active Leader row with the id the country names as
\* its ruler, as the in-game id; NoneId when there is none
_get_current_ruler(d, cdict) ==
    IF cdict.ruler < 0 THEN NoneId
    ELSE IF \E i \in Rows(d.leaders) :
                d.leaders[i].leader_id_in_game = cdict.ruler /\ d.leaders[i].is_active
         THEN cdict.ruler
         ELSE NoneId

\* the ruler of a country of the tree, of no one when the tree lacks it
RulerOf(d, g, country_id) ==
    IF country_id \in DOMAIN g.country
    THEN _get_current_ruler(d, g.country[country_id])
    ELSE NoneId

-----------------------------------------------------------------------------
(* Diplomacy *)

\* _history_add_or_update_diplomatic_events, lines 680-716: the event type,
\* the event type of the other side, and whether the relation holds
diplo_relations(relation) ==
    << <<"sent_rivalry", "received_rivalry", relation.is_rival>>,
       <<"closed_borders", "received_closed_borders", relation.closed_borders>>,
       <<"defensive_pact", "defensive_pact", relation.defensive_pact>>,
       <<"formed_federation", "formed_federation", relation.alliance>>,
       <<"non_aggression_pact", "non_aggression_pact",
         relation.non_aggression_pledge>>,
       <<"first_contact", "first_contact", relation.communications>>,
       <<"commercial_pact", "commercial_pact", relation.commercial_pact>> >>

\* an assignment to is_known_to_player, which is no column of
\* HistoricalEvent: the row keeps its event_is_known_to_player
SetEventIsKnownToPlayer(event, value) ==
    [event EXCEPT !.event_is_known_to_player = value]

SetIsKnownToPlayer(event, value) == event

\* line 730: the matching event ended longer ago than the staleness window
EventNeverStale(end_date_days, date) == FALSE

EventIsStale(end_date_days, date) == end_date_days < date - StaleDays

\* lines 724-728: the most recent event of the type between the two countries
MatchingDiploEvent(d, et, c, tc) ==
    LET I == {i \in Rows(d.events) : /\ d.events[i].event_type = et
                                     /\ d.events[i].country = c
                                     /\ d.events[i].target_country = tc}
    IN FirstDesc(I, [i \in I |-> d.events[i].start_date_days])

\* lines 730-743: a new event, or the matching event extended to the day
AddOrUpdateDiploEvent(s, et, c, tc, c_ruler, is_known_to_player, matching_event) ==
    IF matching_event = 0
       \/ EventIsStale(s.db.events[matching_event].end_date_days, s.date)
    THEN AddEvent(s, [NewEvent(et, c, s.date, s.date, is_known_to_player)
                         EXCEPT !.target_country = tc, !.leader = c_ruler])
    ELSE [s EXCEPT !.db.events[matching_event] =
                       SetIsKnownToPlayer([@ EXCEPT !.end_date_days = s.date],
                                          is_known_to_player)]

DiploEvent(s, et, c, tc, c_ruler, is_known_to_player) ==
    AddOrUpdateDiploEvent(s, et, c, tc, c_ruler, is_known_to_player,
                          MatchingDiploEvent(s.db, et, c, tc))

\* lines 717-743: the relations that hold, each with the event of the country
\* and the event of the target country
RECURSIVE DiploEvents(_, _, _, _, _, _, _)
DiploEvents(s, relations, c, tc, ruler, tc_ruler, is_known_to_player) ==
    IF relations = <<>> THEN s
    ELSE DiploEvents(
             IF Head(relations)[3]
             THEN DiploEvent(
                      DiploEvent(s, Head(relations)[1], c, tc, ruler,
                                 is_known_to_player),
                      Head(relations)[2], tc, c, tc_ruler, is_known_to_player)
             ELSE s,
             Tail(relations), c, tc, ruler, tc_ruler, is_known_to_player)

\* _history_add_or_update_diplomatic_events: nothing when the target country
\* has no Country row; target_country_dict.get raises when the tree lacks the
\* target country or holds no dict for it.  The tree names the type of a country "type", so the
\* lookup of "country_type" finds nothing and tc_ruler stays None.
_history_add_or_update_diplomatic_events(s, g, country_id, relation) ==
    IF CountryRow(s.db, relation.country) = 0 THEN s
    ELSE IF relation.country \notin DOMAIN g.country THEN Raise(s)
    ELSE IF ~g.country[relation.country].is_dict THEN Raise(s)
    ELSE DiploEvents(s, diplo_relations(relation), country_id, relation.country,
                     _get_current_ruler(s.db, g.country[country_id]), NoneId,
                     has_met_player(s.db, country_id)
                         /\ has_met_player(s.db, relation.country))

\* _process_diplomacy, lines 645-663: the loop over the relations ends with
\* a break, so the first relation is the only one handled
_process_diplomacy(s, g, country_id) ==
    IF s.err \/ g.country[country_id].relation = <<>> THEN s
    ELSE IF only_read_player_history /\ ~is_player(s.db, country_id) THEN s
    ELSE _history_add_or_update_diplomatic_events(
             s, g, country_id, Head(g.country[country_id].relation))

\* _process_diplomacy, lines 629-664: the returned flags towards the player
diplomacy_towards_player(player, cdict) ==
    [has_communications_with_player |->
        /\ cdict.relation # <<>>
        /\ Head(cdict.relation).country = player
        /\ Head(cdict.relation).communications]

-----------------------------------------------------------------------------
(* Countries, governments and country data *)

\* _process_gamestate, lines 176-190: the Country row is created on first sight
UpsertCountry(s, country_id, cdict) ==
    IF CountryRow(s.db, country_id) # 0
    THEN s
    ELSE AddRow(s, "countries",
                [country_id_in_game |-> country_id,
                 is_player |-> (country_id = s.player),
                 country_type |-> cdict.type,
                 first_player_contact_date |->
                     IF country_id = s.player THEN 0 ELSE NoDay])

\* lines 197-199 without the test for None: every observed contact is written
SetFirstContactAlways(s, country_id, diplomacy_data) ==
    IF ~s.err /\ diplomacy_data.has_communications_with_player
    THEN [s EXCEPT !.db.countries[CountryRow(s.db, country_id)]
                       .first_player_contact_date = s.date]
    ELSE s

\* _process_gamestate, lines 197-199
SetFirstContact(s, country_id, diplomacy_data) ==
    IF ~s.err
       /\ s.db.countries[CountryRow(s.db, country_id)].first_player_contact_date
              = NoDay
       /\ diplomacy_data.has_communications_with_player
    THEN [s EXCEPT !.db.countries[CountryRow(s.db, country_id)]
                       .first_player_contact_date = s.date]
    ELSE s

\* _extract_country_government, lines 241-247: the Government row of the
\* country with the latest start day that is not after the snapshot
PrevGov(d, country_id, date) ==
    LET I == {i \in Rows(d.governments) :
                /\ d.governments[i].country = country_id
                /\ d.governments[i].start_date_days <= date}
    IN FirstDesc(I, [i \in I |-> d.governments[i].start_date_days])

\* lines 252-259
gov_was_reformed(prev_gov, cdict) ==
    \/ cdict.ethic # prev_gov.ethics
    \/ cdict.civics # prev_gov.civics
    \/ cdict.name # prev_gov.gov_name
    \/ cdict.gov_type # prev_gov.gov_type

\* line 250: the end day the previous Government is given
PrevGovEndEarlier(date) == date - 2

PrevGovEnd(date) == date - 1

ClosePrevGov(s, prev_gov) ==
    [s EXCEPT !.db.governments[prev_gov].end_date_days = PrevGovEnd(s.date)]

\* lines 264-278
AddGovernment(s, country_id, cdict) ==
    AddRow(s, "governments",
           [country |-> country_id,
            start_date_days |-> s.date - 1,
            end_date_days |-> s.date + 1,
            gov_name |-> cdict.name,
            gov_type |-> cdict.gov_type,
            authority |-> cdict.authority,
            ethics |-> Columns5(cdict.ethic),
            civics |-> Columns5(cdict.civics)])

\* lines 279-288
AddReformEvent(s, country_id, cdict) ==
    AddEvent(s, [NewEvent("government_reform", country_id, s.date, s.date,
                          has_met_player(s.db, country_id))
                    EXCEPT !.leader = _get_current_ruler(s.db, cdict)])

\* lines 249-288, given the row the query found (0 for None)
UpdateGovernment(s, country_id, cdict, prev_gov) ==
    IF prev_gov = 0 THEN AddGovernment(s, country_id, cdict)
    ELSE IF ~gov_was_reformed(s.db.governments[prev_gov], cdict)
    THEN ClosePrevGov(s, prev_gov)
    ELSE AddReformEvent(AddGovernment(ClosePrevGov(s, prev_gov),
                                      country_id, cdict),
                        country_id, cdict)

_extract_country_government(s, country_id, cdict) ==
    IF s.err THEN s
    ELSE UpdateGovernment(s, country_id, cdict,
                          PrevGov(s.db, country_id, s.date))

\* _extract_country_data: the CountryData row of the country and the snapshot;
\* len(country_dict.get("surveyed", 0)) raises when the key is absent.
\* _process_gamestate, lines 205-206, keeps the row of the player's country.
_extract_country_data(s, country_id, cdict, diplomacy_data) ==
    IF s.err THEN s
    ELSE IF cdict.surveyed = NoneId THEN Raise(s)
    ELSE [AddRow(s, "country_data",
                 [date |-> s.date,
                  country |-> country_id,
                  military_power |-> cdict.military_power,
                  exploration_progress |-> cdict.surveyed,
                  attitude_towards_player |->
                      IF country_id = s.player THEN "is_player"
                      ELSE cdict.attitude,
                  has_communications_with_player |->
                      diplomacy_data.has_communications_with_player,
                  net_energy |-> 0])
            EXCEPT !.player_country_data =
                       IF is_player(s.db, country_id)
                       THEN Len(s.db.country_data) + 1 ELSE @]

\* _extract_country_economy, lines 590-624: one budget line is summed into
\* the CountryData row just added; the player's lines are also stored
AddBudgetItem(s, country_id, item) ==
    IF is_player(s.db, country_id)
    THEN AddRow(_get_or_add_shared_description(s, item.name), "budget_items",
                [date |-> s.date, country |-> country_id,
                 name |-> item.name, net_energy |-> item.energy])
    ELSE s

RECURSIVE _extract_country_economy(_, _, _)
_extract_country_economy(s, country_id, budget) ==
    IF budget = <<>> \/ s.err THEN s
    ELSE _extract_country_economy(
             IF Head(budget).name = "none" THEN s
             ELSE AddBudgetItem(
                      [s EXCEPT !.db.country_data[Len(s.db.country_data)]
                                    .net_energy = @ + Head(budget).energy],
                      country_id, Head(budget)),
             country_id, Tail(budget))

-----------------------------------------------------------------------------
(* Systems, planets and sectors *)

\* _add_single_system: the System row of an in-game id, with a
\* discovered_new_system event when a country is given; nothing when the tree
\* has no data for the system
_add_single_system(s, g, system_id, country) ==
    IF system_id \notin DOMAIN g.galactic_object THEN s
    ELSE IF country = NoneId
    THEN AddRow(s, "systems",
                [system_id_in_game |-> system_id,
                 name |-> g.galactic_object[system_id].name])
    ELSE AddEvent(AddRow(s, "systems",
                         [system_id_in_game |-> system_id,
                          name |-> g.galactic_object[system_id].name]),
                  [NewEvent("discovered_new_system", country,
                            s.date, s.date, TRUE)
                      EXCEPT !.system = system_id])

\* _extract_galaxy_data: every system of the tree, when the Game is created
RECURSIVE AddSystems(_, _, _)
AddSystems(s, g, ids) ==
    IF ids = {} THEN s
    ELSE AddSystems(_add_single_system(s, g, Min(ids), NoneId), g, ids \ {Min(ids)})

_extract_galaxy_data(s, g) == AddSystems(s, g, DOMAIN g.galactic_object)

\* _add_or_update_planet_model, given the row p the query found (0 for None)
_add_or_update_planet_model(s, system_id, planet_id, planet_dict, p) ==
    IF p = 0
    THEN AddRow(s, "planets",
                [planet_id_in_game |-> planet_id,
                 system |-> system_id,
                 planet_name |-> planet_dict.name,
                 planet_class |-> planet_dict.planet_class,
                 colonized_date |->
                     IF planet_dict.colonize_date = <<>> THEN NoDay
                     ELSE date_to_days(planet_dict.colonize_date)])
    ELSE [s EXCEPT !.db.planets[p].planet_name = planet_dict.name,
                   !.db.planets[p].planet_class = planet_dict.planet_class]

\* _history_add_or_update_colonization_events, lines 1607-1611
ColonizationEnd(date, planet_dict) ==
    IF planet_dict.colonize_date = <<>> THEN date
    ELSE date_to_days(planet_dict.colonize_date)

\* lines 1620-1643, given the colonization event of the planet (0 for None)
UpdateColonizationEvent(s, country_id, system_id, planet_id, governor, end_date_days, event) ==
    IF event # 0
    THEN [s EXCEPT !.db.events[event].end_date_days = end_date_days]
    ELSE IF s.date >= 100
    THEN AddEvent(s, [NewEvent("colonization", country_id,
                               Min({s.date, end_date_days}), end_date_days,
                               has_met_player(s.db, country_id))
                         EXCEPT !.leader = governor, !.planet = planet_id,
                                !.system = system_id])
    ELSE AddEvent(s, [NewEvent("colonization", country_id,
                               IF is_player(s.db, country_id) THEN 0
                               ELSE Min({s.date, end_date_days, 0}),
                               IF is_player(s.db, country_id) THEN 0
                               ELSE Min({end_date_days, 0}),
                               has_met_player(s.db, country_id))
                         EXCEPT !.planet = planet_id, !.system = system_id])

\* _history_add_or_update_colonization_events
_history_add_or_update_colonization_events(s, country_id, system_id, planet_id, planet_dict, governor) ==
    IF planet_dict.colonize_date = <<>> /\ ~planet_dict.pop
       /\ ~planet_dict.colonizer_pop
    THEN s
    ELSE IF s.db.planets[PlanetRow(s.db, planet_id)].colonized_date # NoDay
    THEN s
    ELSE UpdateColonizationEvent(
             IF planet_dict.colonize_date # <<>>
             THEN [s EXCEPT !.db.planets[PlanetRow(s.db, planet_id)]
                                .colonized_date =
                                    date_to_days(planet_dict.colonize_date)]
             ELSE s,
             country_id, system_id, planet_id, governor,
             ColonizationEnd(s.date, planet_dict),
             OneOrNone({i \in Rows(s.db.events) :
                          /\ s.db.events[i].event_type = "colonization"
                          /\ s.db.events[i].planet = planet_id}))

\* _history_add_or_update_habitable_megastructure_construction_event,
\* lines 1651-1659: the name of the megastructure
MegastructureName(g, system_id, planet_dict) ==
    IF planet_dict.planet_class = "pc_ringworld_habitable"
    THEN g.galactic_object[system_id].name \o " Ringworld"
    ELSE planet_dict.name

\* lines 1669-1685, given the event the query found (0 for None)
UpdateMegastructureEvent(s, country_id, system_id, planet_id, governor, p_name, event) ==
    IF event = 0
    THEN AddEvent(s, [NewEvent("habitat_ringworld_construction", country_id,
                               s.date, s.date,
                               has_met_player(s.db, country_id))
                         EXCEPT !.leader = governor, !.planet = planet_id,
                                !.system = system_id,
                                !.description = p_name])
    ELSE IF ~s.db.events[event].event_is_known_to_player
    THEN [s EXCEPT !.db.events[event].event_is_known_to_player =
                       has_met_player(s.db, country_id)]
    ELSE s

_history_add_or_update_habitable_megastructure_construction_event(s, g, country_id, system_id, planet_id, planet_dict, governor) ==
    IF planet_dict.planet_class \notin {"pc_ringworld_habitable", "pc_habitat"}
    THEN s
    ELSE UpdateMegastructureEvent(
             _get_or_add_shared_description(
                 s, MegastructureName(g, system_id, planet_dict)),
             country_id, system_id, planet_id, governor,
             MegastructureName(g, system_id, planet_dict),
             OneOrNone({i \in Rows(s.db.events) :
                 /\ s.db.events[i].event_type = "habitat_ringworld_construction"
                 /\ s.db.events[i].system =
                        s.db.planets[PlanetRow(s.db, planet_id)].system
                 /\ s.db.events[i].description =
                        MegastructureName(g, system_id, planet_dict)}))

\* _history_add_planetary_events_within_sector, lines 1496-1501: the events
\* of a colonizable planet whose Planet row is in the session
ColonizablePlanetEvents(s, g, country_id, system_id, planet_id, planet_dict, governor) ==
    IF is_colonizable_megastructure(planet_dict.planet_class)
    THEN _history_add_or_update_habitable_megastructure_construction_event(
             _history_add_or_update_colonization_events(
                 s, country_id, system_id, planet_id, planet_dict, governor),
             g, country_id, system_id, planet_id, planet_dict, governor)
    ELSE _history_add_or_update_colonization_events(
             s, country_id, system_id, planet_id, planet_dict, governor)

\* lines 1481-1503: one planet of a system of the sector
PlanetEvents(s, g, country_id, system_id, planet_id, governor) ==
    IF planet_id \notin DOMAIN g.planet THEN s
    ELSE IF ~is_colonizable_planet(g.planet[planet_id].planet_class)
            /\ ~is_destroyed_planet(g.planet[planet_id].planet_class)
    THEN s
    ELSE IF is_colonizable_planet(g.planet[planet_id].planet_class)
    THEN ColonizablePlanetEvents(
             _add_or_update_planet_model(s, system_id, planet_id,
                                         g.planet[planet_id],
                                         PlanetRow(s.db, planet_id)),
             g, country_id, system_id, planet_id, g.planet[planet_id],
             governor)
    ELSE _add_or_update_planet_model(s, system_id, planet_id,
                                     g.planet[planet_id],
                                     PlanetRow(s.db, planet_id))

RECURSIVE PlanetsEvents(_, _, _, _, _, _)
PlanetsEvents(s, g, country_id, system_id, planets, governor) ==
    IF planets = <<>> THEN s
    ELSE PlanetsEvents(PlanetEvents(s, g, country_id, system_id,
                                    Head(planets), governor),
                       g, country_id, system_id, Tail(planets), governor)

\* lines 1473-1476: the System row takes the name the tree gives the system
RenameSystem(s, g, system_id) ==
    [s EXCEPT !.db.systems[SystemRow(s.db, system_id)].name =
                  IF system_id \in DOMAIN g.galactic_object
                  THEN g.galactic_object[system_id].name ELSE ""]

\* lines 1465-1503: one system of the sector; system_model.name raises when
\* the system has no row and the tree has no data for it
SystemEvents(s, g, country_id, system_id, governor) ==
    IF ~HasSystem(s.db, system_id) /\ system_id \notin DOMAIN g.galactic_object
    THEN Raise(s)
    ELSE PlanetsEvents(
             RenameSystem(IF HasSystem(s.db, system_id) THEN s
                          ELSE _add_single_system(s, g, system_id, country_id),
                          g, system_id),
             g, country_id, system_id,
             IF system_id \in DOMAIN g.galactic_object
             THEN g.galactic_object[system_id].planet ELSE <<>>,
             governor)

RECURSIVE _history_add_planetary_events_within_sector(_, _, _, _, _)
_history_add_planetary_events_within_sector(s, g, country_id, systems, governor) ==
    IF systems = <<>> \/ s.err THEN s
    ELSE _history_add_planetary_events_within_sector(
             SystemEvents(s, g, country_id, Head(systems), governor),
             g, country_id, Tail(systems), governor)

\* _history_process_planet_and_sector_events, lines 1448-1454: the Leader row
\* of the country that the sector names as its governor, as the in-game id
GovernorOf(d, country_id, sector_info) ==
    IF /\ sector_info.governor # NoneId
       /\ \E i \in Rows(d.leaders) :
              /\ d.leaders[i].country = country_id
              /\ d.leaders[i].leader_id_in_game = sector_info.governor
    THEN sector_info.governor
    ELSE NoneId

\* _history_add_or_update_governor_sector_events, lines 1696-1715, given the
\* event the query found (0 for None)
UpdateGovernorSectorEvent(s, country_id, sector_capital, governor, description, event) ==
    IF /\ event # 0
       /\ s.db.events[event].leader = governor
       /\ s.db.events[event].end_date_days > s.date - StaleDays
    THEN [s EXCEPT !.db.events[event] =
                       IF @.planet = NoneId
                       THEN [@ EXCEPT !.end_date_days = s.date,
                                      !.planet = sector_capital,
                                      !.system = s.db.planets[PlanetRow(
                                                     s.db, sector_capital)].system]
                       ELSE [@ EXCEPT !.end_date_days = s.date]]
    ELSE AddEvent(s, [NewEvent("governed_sector", country_id, s.date, s.date,
                               RevealsEconomy(s.db, get_most_recent_data(
                                                        s.db, country_id)))
                         EXCEPT !.leader = governor,
                                !.description = description,
                                !.planet = sector_capital,
                                !.system = s.db.planets[PlanetRow(
                                               s.db, sector_capital)].system])

_history_add_or_update_governor_sector_events(s, country_id, sector_capital, governor, description) ==
    UpdateGovernorSectorEvent(
        s, country_id, sector_capital, governor, description,
        LET I == {i \in Rows(s.db.events) :
                    /\ s.db.events[i].event_type = "governed_sector"
                    /\ s.db.events[i].description = description}
        IN FirstDesc(I, [i \in I |-> s.db.events[i].end_date_days]))

\* _history_process_planet_and_sector_events, lines 1458-1462
SectorGovernorEvents(s, country_id, sector_info, governor) ==
    IF s.err \/ governor = NoneId
       \/ PlanetRow(s.db, sector_info.local_capital) = 0
    THEN s
    ELSE _history_add_or_update_governor_sector_events(
             s, country_id, sector_info.local_capital, governor,
             sector_info.name)

\* lines 1444-1462: one sector of the country
SectorEvents(s, g, country_id, sector_id) ==
    IF sector_id \notin DOMAIN g.sectors THEN s
    ELSE SectorGovernorEvents(
             _history_add_planetary_events_within_sector(
                 _get_or_add_shared_description(s, g.sectors[sector_id].name),
                 g, country_id, g.sectors[sector_id].systems,
                 GovernorOf(s.db, country_id, g.sectors[sector_id])),
             country_id, g.sectors[sector_id],
             GovernorOf(s.db, country_id, g.sectors[sector_id]))

RECURSIVE _history_process_planet_and_sector_events(_, _, _, _)
_history_process_planet_and_sector_events(s, g, country_id, sectors) ==
    IF sectors = <<>> \/ s.err THEN s
    ELSE _history_process_planet_and_sector_events(
             SectorEvents(s, g, country_id, Head(sectors)),
             g, country_id, Tail(sectors))

-----------------------------------------------------------------------------
(* Factions *)

\* NO_FACTION_ID_MAP with the types NO_FACTION_POP_ETHICS gives the names
NO_FACTION_ID_MAP ==
    << [name |-> "No faction", id |-> 0 - 1, type |-> "no ethics"],
       [name |-> "No faction (enslaved)", id |-> 0 - 2,
        type |-> "no ethics (enslaved)"],
       [name |-> "No faction (purge)", id |-> 0 - 3,
        type |-> "no ethics (purge)"],
       [name |-> "No faction (non-sentient robot)", id |-> 0 - 4,
        type |-> "no ethics (robot)"] >>

\* the row of models.PoliticalFaction of the country with the in-game id
FactionRow(d, faction_id_in_game, country_id) ==
    OneOrNone({i \in Rows(d.factions) :
                  /\ d.factions[i].faction_id_in_game = faction_id_in_game
                  /\ d.factions[i].country = country_id})

\* _get_or_add_faction
_get_or_add_faction(s, faction_id_in_game, faction_name, country_id, faction_type) ==
    IF FactionRow(s.db, faction_id_in_game, country_id) # 0 THEN s
    ELSE IF faction_id_in_game < 0
    THEN AddRow(_get_or_add_shared_description(s, faction_type), "factions",
                [faction_id_in_game |-> faction_id_in_game,
                 country |-> country_id,
                 faction_name |-> faction_name,
                 faction_type |-> faction_type])
    ELSE AddEvent(
             AddRow(_get_or_add_shared_description(s, faction_type), "factions",
                    [faction_id_in_game |-> faction_id_in_game,
                     country |-> country_id,
                     faction_name |-> faction_name,
                     faction_type |-> faction_type]),
             [NewEvent("new_faction", country_id, s.date, s.date,
                       has_met_player(s.db, country_id))
                 EXCEPT !.faction = Len(s.db.factions) + 1])

\* _history_add_or_update_faction_leader_event, lines 1739-1752, given the
\* event the query found (0 for None)
UpdateFactionLeaderEvent(s, country_id, leader, faction, is_known, matching_event) ==
    IF matching_event = 0
    THEN AddEvent(s, [NewEvent("faction_leader", country_id, s.date, s.date,
                               is_known)
                         EXCEPT !.leader = leader, !.faction = faction])
    ELSE [s EXCEPT !.db.events[matching_event] =
                       [SetIsKnownToPlayer(@, is_known)
                           EXCEPT !.end_date_days = s.date]]

\* _history_add_or_update_faction_leader_event, for the faction row of the
\* country with the in-game id
_history_add_or_update_faction_leader_event(s, country_id, faction_id, faction_dict) ==
    IF faction_dict.leader < 0 THEN s
    ELSE IF ~\E i \in Rows(s.db.leaders) :
                /\ s.db.leaders[i].country = country_id
                /\ s.db.leaders[i].leader_id_in_game = faction_dict.leader
    THEN s
    ELSE UpdateFactionLeaderEvent(
             s, country_id, faction_dict.leader,
             FactionRow(s.db, faction_id, country_id),
             RevealsDemographics(s.db, get_most_recent_data(s.db, country_id)),
             OneOrNone({i \in Rows(s.db.events) :
                 /\ s.db.events[i].country = country_id
                 /\ s.db.events[i].leader = faction_dict.leader
                 /\ s.db.events[i].event_type = "faction_leader"
                 /\ s.db.events[i].faction =
                        FactionRow(s.db, faction_id, country_id)}))

\* _extract_factions_and_faction_leaders, lines 825-838: the factions of the
\* tree that belong to the country
RECURSIVE PopFactions(_, _, _, _)
PopFactions(s, g, country_id, ids) ==
    IF ids = {} THEN s
    ELSE PopFactions(
             IF g.pop_factions[Min(ids)].country # country_id THEN s
             ELSE _history_add_or_update_faction_leader_event(
                      _get_or_add_faction(s, Min(ids),
                                          g.pop_factions[Min(ids)].name,
                                          country_id,
                                          g.pop_factions[Min(ids)].type),
                      country_id, Min(ids), g.pop_factions[Min(ids)]),
             g, country_id, ids \ {Min(ids)})

\* lines 840-846: the pseudo-factions of the country
RECURSIVE NoFactions(_, _, _)
NoFactions(s, country_id, no_factions) ==
    IF no_factions = <<>> THEN s
    ELSE NoFactions(_get_or_add_faction(s, Head(no_factions).id,
                                        Head(no_factions).name, country_id,
                                        Head(no_factions).type),
                    country_id, Tail(no_factions))

_extract_factions_and_faction_leaders(s, g, country_id) ==
    IF s.err THEN s
    ELSE NoFactions(PopFactions(s, g, country_id, DOMAIN g.pop_factions),
                    country_id, NO_FACTION_ID_MAP)

-----------------------------------------------------------------------------
(* Capital and ruler events *)

\* _history_add_or_update_capital, lines 1282-1287: the Planet row with the
\* id the country names as its capital, as the in-game id
CapitalOf(d, cdict) ==
    IF PlanetRow(d, cdict.capital) # 0 THEN cdict.capital ELSE NoneId

\* lines 1288-1293: the latest capital_relocation event of the country
CapitalEvent(d, country_id) ==
    LET I == {i \in Rows(d.events) :
                /\ d.events[i].event_type = "capital_relocation"
                /\ d.events[i].country = country_id}
    IN FirstDesc(I, [i \in I |-> d.events[i].start_date_days])

\* lines 1294-1304, given the capital and the event the queries found;
\* capital_event.planet.planet_id != capital.planet_id raises when either
\* planet is None
_history_add_or_update_capital(s, country_id, ruler, capital, capital_event) ==
    IF capital_event # 0
       /\ (s.db.events[capital_event].planet = NoneId \/ capital = NoneId)
    THEN Raise(s)
    ELSE IF capital_event # 0 /\ s.db.events[capital_event].planet = capital
    THEN s
    ELSE AddEvent(s, [NewEvent("capital_relocation", country_id, s.date, NoDay,
                               has_met_player(s.db, country_id))
                         EXCEPT !.leader = ruler, !.planet = capital,
                                !.system =
                                    IF capital = NoneId THEN NoneId
                                    ELSE s.db.planets[PlanetRow(s.db, capital)]
                                             .system])

\* _history_add_or_update_ruler, lines 1315-1335, given the event the query
\* found (0 for None)
UpdateRulerEvent(s, country_id, ruler, capital_planet, capital_system, event) ==
    IF event = 0
    THEN AddEvent(s, [NewEvent("ruled_empire", country_id,
                               IF s.date < 100 THEN 0 ELSE s.date, s.date,
                               has_met_player(s.db, country_id))
                         EXCEPT !.leader = ruler, !.planet = capital_planet,
                                !.system = capital_system])
    ELSE [s EXCEPT !.db.events[event] =
                       IF @.planet = NoneId
                       THEN [SetIsKnownToPlayer(
                                 @, has_met_player(s.db, country_id))
                                EXCEPT !.end_date_days = s.date - 1,
                                       !.planet = capital_planet,
                                       !.system = capital_system]
                       ELSE [SetIsKnownToPlayer(
                                 @, has_met_player(s.db, country_id))
                                EXCEPT !.end_date_days = s.date - 1]]

_history_add_or_update_ruler(s, country_id, ruler, capital_planet) ==
    IF s.err THEN s
    ELSE UpdateRulerEvent(
             s, country_id, ruler, capital_planet,
             IF capital_planet = NoneId THEN NoneId
             ELSE s.db.planets[PlanetRow(s.db, capital_planet)].system,
             LET I == {i \in Rows(s.db.events) :
                         /\ s.db.events[i].event_type = "ruled_empire"
                         /\ s.db.events[i].country = country_id
                         /\ s.db.events[i].leader = ruler}
             IN FirstDesc(I, [i \in I |-> s.db.events[i].start_date_days]))

\* _history_add_ruler_events
_history_add_ruler_events(s, g, country_id) ==
    IF s.err THEN s
    ELSE IF _get_current_ruler(s.db, g.country[country_id]) = NoneId THEN s
    ELSE _history_add_or_update_ruler(
             _history_add_or_update_capital(
                 s, country_id, _get_current_ruler(s.db, g.country[country_id]),
                 CapitalOf(s.db, g.country[country_id]),
                 CapitalEvent(s.db, country_id)),
             country_id, _get_current_ruler(s.db, g.country[country_id]),
             CapitalOf(s.db, g.country[country_id]))

-----------------------------------------------------------------------------
(* The pass over the countries of the tree *)

\* _process_gamestate, lines 195-206: leaders, diplomacy, first contact,
\* government, country data and economy of a supported country
CountryData(s, g, country_id) ==
    _extract_country_economy(
        _extract_country_data(
            _extract_country_government(
                SetFirstContact(
                    _process_diplomacy(
                        _extract_country_leaders(s, g, country_id),
                        g, country_id),
                    country_id,
                    diplomacy_towards_player(s.player, g.country[country_id])),
                country_id, g.country[country_id]),
            country_id, g.country[country_id],
            diplomacy_towards_player(s.player, g.country[country_id])),
        country_id, g.country[country_id].budget)

\* _process_gamestate, lines 211-217: the history of a supported country
CountryHistory(s, g, country_id) ==
    IF s.err \/ (only_read_player_history /\ ~is_player(s.db, country_id))
    THEN s
    ELSE _history_add_ruler_events(
             _extract_factions_and_faction_leaders(
                 _history_process_planet_and_sector_events(
                     s, g, country_id, g.country[country_id].owned_sectors),
                 g, country_id),
             g, country_id)

\* _process_gamestate, lines 176-217: the pass over a country of a supported
\* type
ProcessSupported(s, g, country_id) ==
    CountryHistory(
        CountryData(UpsertCountry(s, country_id, g.country[country_id]),
                    g, country_id),
        g, country_id)

\* _process_gamestate, lines 172-217: the pass over one country
ProcessCountry(s, g, country_id) ==
    IF ~g.country[country_id].is_dict THEN s
    ELSE IF g.country[country_id].type \notin SUPPORTED_COUNTRY_TYPES
    THEN UpsertCountry(s, country_id, g.country[country_id])
    ELSE ProcessSupported(s, g, country_id)

RECURSIVE ProcessCountries(_, _, _)
ProcessCountries(s, g, ids) ==
    IF ids = {} \/ s.err THEN s
    ELSE ProcessCountries(ProcessCountry(s, g, Min(ids)), g, ids \ {Min(ids)})

-----------------------------------------------------------------------------
(* System ownership *)

\* _extract_system_ownership, lines 1767-1770: the System row of the starbase,
\* as the in-game id.  A system the tree has no data for stays None, and the
\* query then matches the rows whose system is NULL.
StarbaseSystem(d, starbase) ==
    IF HasSystem(d, starbase.system) THEN starbase.system ELSE NoneId

\* the query of lines 1774-1776 finding nothing
NoOwnership(d, system) == 0

\* lines 1774-1776: the latest ownership of the system, 0 for None
LatestOwnership(d, system) ==
    LET I == {i \in Rows(d.system_ownership) :
                d.system_ownership[i].system = system}
    IN FirstDesc(I, [i \in I |-> d.system_ownership[i].end_date_days])

\* lines 1777-1778: the end day the latest ownership is given
OwnershipEndBefore(date) == date - 1

OwnershipEnd(date) == date

\* lines 1787-1795: the lost_system event of the previous owner
AddLostSystem(s, country, system, target_country) ==
    IF target_country = NoneId THEN s
    ELSE AddEvent(s, [NewEvent("lost_system", target_country, s.date, NoDay,
                               \/ has_met_player(s.db, country)
                               \/ has_met_player(s.db, target_country))
                         EXCEPT !.target_country = country,
                                !.system = system])

\* lines 1796-1811: the event of the new owner and the new ownership
AddOwnership(s, event_type, country, system, target_country) ==
    AddRow(
        AddEvent(s, [NewEvent(event_type, country, s.date, NoDay,
                              \/ has_met_player(s.db, country)
                              \/ (target_country # NoneId
                                  /\ has_met_player(s.db, target_country)))
                        EXCEPT !.target_country = target_country,
                               !.system = system]),
        "system_ownership",
        [start_date_days |-> s.date,
         end_date_days |-> s.date + 1,
         country |-> country,
         system |-> system])

\* lines 1777-1811, given the ownership the query found (0 for None)
UpdateOwnership(s, country, system, ownership) ==
    IF ownership = 0
    THEN AddOwnership(s, "expanded_to_system", country, system, NoneId)
    ELSE IF s.db.system_ownership[ownership].country = country
    THEN [s EXCEPT !.db.system_ownership[ownership].end_date_days =
                       OwnershipEnd(s.date)]
    ELSE AddOwnership(
             AddLostSystem(
                 [s EXCEPT !.db.system_ownership[ownership].end_date_days =
                               OwnershipEnd(s.date)],
                 country, system, s.db.system_ownership[ownership].country),
             "gained_system", country, system,
             s.db.system_ownership[ownership].country)

\* lines 1771-1776, with the System row of the starbase in the session
OwnStarbase(s, starbase) ==
    IF CountryRow(s.db, starbase.owner) = 0 THEN s
    ELSE UpdateOwnership(s, starbase.owner, StarbaseSystem(s.db, starbase),
                         LatestOwnership(s.db, StarbaseSystem(s.db, starbase)))

\* lines 1762-1811: one starbase entry
ExtractStarbase(s, g, starbase) ==
    IF starbase.system = NoneId \/ starbase.owner = NoneId THEN s
    ELSE OwnStarbase(
             IF HasSystem(s.db, starbase.system) THEN s
             ELSE _add_single_system(
                      s, g, starbase.system,
                      IF CountryRow(s.db, starbase.owner) = 0 THEN NoneId
                      ELSE starbase.owner),
             starbase)

RECURSIVE ExtractStarbases(_, _, _)
ExtractStarbases(s, g, starbases) ==
    IF starbases = <<>> THEN s
    ELSE ExtractStarbases(ExtractStarbase(s, g, Head(starbases)),
                          g, Tail(starbases))

_extract_system_ownership(s, g) ==
    IF s.err THEN s ELSE ExtractStarbases(s, g, g.starbases)

-----------------------------------------------------------------------------
(* Wars *)

\* query(models.War).order_by(start_date_days.desc()).filter_by(name).first()
MostRecentWar(d, name) ==
    LET I == {i \in Rows(d.wars) : d.wars[i].name = name}
    IN FirstDesc(I, [i \in I |-> d.wars[i].start_date_days])

\* the query of lines 955-957 finding nothing
NoParticipantRow(d, war, country) == 0

\* the WarParticipant row of the war and the country, 0 when there is none
ParticipantRow(d, war, country) ==
    OneOrNone({i \in Rows(d.war_participants) :
                  /\ d.war_participants[i].war = war
                  /\ d.war_participants[i].country = country})

RECURSIVE SumOver(_, _)
SumOver(I, f) ==
    IF I = {} THEN 0 ELSE f[Min(I)] + SumOver(I \ {Min(I)}, f)

\* models.War.attacker_war_exhaustion, defender_war_exhaustion: the
\* exhaustion accumulated over the Combat rows of the war (in thousandths)
attacker_war_exhaustion(d, war) ==
    SumOver({i \in Rows(d.combats) : d.combats[i].war = war},
            [i \in Rows(d.combats) |-> d.combats[i].attacker_war_exhaustion])

defender_war_exhaustion(d, war) ==
    SumOver({i \in Rows(d.combats) : d.combats[i].war = war},
            [i \in Rows(d.combats) |-> d.combats[i].defender_war_exhaustion])

\* _history_add_peace_events: the peace event of one participant of the war
AddPeaceEvent(s, g, war, country) ==
    IF \E i \in Rows(s.db.events) :
           /\ s.db.events[i].event_type = "peace"
           /\ s.db.events[i].country = country
           /\ s.db.events[i].war = war
    THEN s
    ELSE AddEvent(s, [NewEvent("peace", country,
                               s.db.wars[war].end_date_days, NoDay,
                               has_met_player(s.db, country))
                         EXCEPT !.war = war,
                                !.leader = RulerOf(s.db, g, country)])

RECURSIVE AddPeaceEvents(_, _, _, _)
AddPeaceEvents(s, g, war, P) ==
    IF P = {} THEN s
    ELSE AddPeaceEvents(
             AddPeaceEvent(s, g, war, s.db.war_participants[Min(P)].country),
             g, war, P \ {Min(P)})

_history_add_peace_events(s, g, war) ==
    AddPeaceEvents(s, g, war,
                   {i \in Rows(s.db.war_participants) :
                        s.db.war_participants[i].war = war})

\* lines 915-916 without the second disjunct: a new War only when the name is
\* unknown
NoWarOfName(s, w) == w = 0

\* _extract_wars, lines 915-916: no War row of the name, or only a settled
\* one that ended longer ago than the staleness window
NeedsNewWar(s, w) ==
    \/ w = 0
    \/ (/\ s.db.wars[w].outcome # "in_progress"
        /\ s.db.wars[w].end_date_days < s.date - StaleDays)

\* lines 932-933: the entry of a settled war is passed over
PassedOver(s, war_dict, w) ==
    /\ ~NeedsNewWar(s, w)
    /\ ~war_dict.defender_force_peace
    /\ ~war_dict.attacker_force_peace
    /\ s.db.wars[w].outcome # "in_progress"

\* lines 915-936, given the War row the query found (0 for None)
UpdateWar(s, war_dict, w) ==
    IF NeedsNewWar(s, w)
    THEN AddRow(s, "wars",
                [name |-> war_dict.name,
                 start_date_days |-> date_to_days(war_dict.start_date),
                 end_date_days |-> s.date,
                 outcome |-> "in_progress"])
    ELSE IF war_dict.defender_force_peace
    THEN [s EXCEPT !.db.wars[w].outcome = "status_quo",
                   !.db.wars[w].end_date_days =
                       date_to_days(war_dict.defender_force_peace_date)]
    ELSE IF war_dict.attacker_force_peace
    THEN [s EXCEPT !.db.wars[w].outcome = "status_quo",
                   !.db.wars[w].end_date_days =
                       date_to_days(war_dict.attacker_force_peace_date)]
    ELSE IF s.db.wars[w].outcome # "in_progress" THEN s
    ELSE [s EXCEPT !.db.wars[w].end_date_days = s.date]

\* lines 960-975: a new WarParticipant and its war event
AddParticipant(s, g, war, country_id, is_attacker, war_goal) ==
    AddRow(AddEvent(s, [NewEvent("war", country_id, s.date, s.date,
                                 has_met_player(s.db, country_id))
                           EXCEPT !.war = war,
                                  !.leader = RulerOf(s.db, g, country_id)]),
           "war_participants",
           [war |-> war, country |-> country_id,
            is_attacker |-> is_attacker, war_goal |-> war_goal])

\* lines 952-955: the party has no Country row; the warning reads
\* country_dict["name"], which raises TypeError when the entry is no dict
MissingCountry(s, country_dict) ==
    IF country_dict.is_dict THEN s ELSE Raise(s)

\* lines 946-978: one party of the war entry, given the WarParticipant row the
\* query found (0 for None); "" stands for no war goal
ExtractParticipant(s, g, war, war_dict, country_id, wp) ==
    IF country_id \notin DOMAIN g.country THEN Raise(s)
    ELSE IF CountryRow(s.db, country_id) = 0
    THEN MissingCountry(s, g.country[country_id])
    ELSE IF wp # 0
    THEN IF s.db.war_participants[wp].war_goal = ""
         THEN [s EXCEPT !.db.war_participants[wp].war_goal =
                            war_dict.defender_war_goal]
         ELSE s
    ELSE IF country_id \in Range(war_dict.attackers)
            /\ war_dict.attacker_war_goal # ""
    THEN AddParticipant(s, g, war, country_id, TRUE,
                        war_dict.attacker_war_goal)
    ELSE AddParticipant(s, g, war, country_id,
                        country_id \in Range(war_dict.attackers),
                        war_dict.defender_war_goal)

RECURSIVE ExtractParticipants(_, _, _, _, _)
ExtractParticipants(s, g, war, war_dict, parties) ==
    IF parties = <<>> \/ s.err THEN s
    ELSE ExtractParticipants(
             ExtractParticipant(s, g, war, war_dict, Head(parties),
                                ParticipantRow(s.db, war, Head(parties))),
             g, war, war_dict, Tail(parties))

\* _extract_combat_victories, lines 1001-1011: the System and the Planet of a
\* battle, as in-game ids
BattlePlanet(d, b) ==
    IF PlanetRow(d, b.planet) # 0 THEN b.planet ELSE NoneId

BattleSystem(d, b) ==
    IF PlanetRow(d, b.planet) # 0 THEN d.planets[PlanetRow(d, b.planet)].system
    ELSE IF HasSystem(d, b.system) THEN b.system
    ELSE NoneId

\* lines 1015-1018
BattleDate(s, b) ==
    IF date_to_days(b.date) < 0 THEN s.date ELSE date_to_days(b.date)

\* lines 1037-1075: the Combat row of the battle and its event
AddCombat(s, war, b, system, planet) ==
    AddEvent(
        AddRow(s, "combats",
               [war |-> war, date |-> BattleDate(s, b),
                attacker_war_exhaustion |-> b.attacker_war_exhaustion,
                defender_war_exhaustion |-> b.defender_war_exhaustion,
                system |-> system, planet |-> planet,
                combat_type |-> b.type,
                attacker_victory |-> (b.attacker_victory = "yes")]),
        [NewEvent(IF b.type = "armies" THEN "army_combat" ELSE "fleet_combat",
                  NoneId, BattleDate(s, b), NoDay,
                  \E c \in Range(b.attackers) \cup Range(b.defenders) :
                      has_met_player(s.db, c))
            EXCEPT !.war = war, !.system = system, !.planet = planet])

\* the query of lines 1023-1031 finding nothing
HasNoCombat(d, war, b) == FALSE

\* lines 1023-1033: a Combat row of the war with the place, the type, the
\* victor and both exhaustion values of the battle exists
HasCombat(d, war, b) ==
    \E i \in Rows(d.combats) :
        /\ d.combats[i].war = war
        /\ d.combats[i].system = BattleSystem(d, b)
        /\ d.combats[i].planet = BattlePlanet(d, b)
        /\ d.combats[i].combat_type = b.type
        /\ d.combats[i].attacker_victory = (b.attacker_victory = "yes")
        /\ d.combats[i].attacker_war_exhaustion = b.attacker_war_exhaustion
        /\ d.combats[i].defender_war_exhaustion = b.defender_war_exhaustion

\* lines 1020-1035, with the System row of the battle in the session when the
\* tree has data for it.  The Combat query reads planet_model.system when
\* neither a Planet nor a System row was found, which raises.
RecordBattle(s, war, b) ==
    IF /\ b.defender_war_exhaustion + b.attacker_war_exhaustion <= 1
       /\ b.type # "armies"
    THEN s
    ELSE IF PlanetRow(s.db, b.planet) = 0 /\ ~HasSystem(s.db, b.system)
    THEN Raise(s)
    ELSE IF HasCombat(s.db, war, b) THEN s
    ELSE AddCombat(s, war, b, BattleSystem(s.db, b), BattlePlanet(s.db, b))

\* lines 989-1011: one battle of the war entry
ExtractBattle(s, g, war, b) ==
    IF b.attackers = <<>> \/ b.defenders = <<>> THEN s
    ELSE IF b.attacker_victory \notin {"yes", "no"} THEN s
    ELSE RecordBattle(
             IF PlanetRow(s.db, b.planet) = 0 /\ ~HasSystem(s.db, b.system)
             THEN _add_single_system(s, g, b.system, NoneId)
             ELSE s,
             war, b)

RECURSIVE _extract_combat_victories(_, _, _, _)
_extract_combat_victories(s, g, war, battles) ==
    IF battles = <<>> \/ s.err THEN s
    ELSE _extract_combat_victories(ExtractBattle(s, g, war, Head(battles)),
                                   g, war, Tail(battles))

\* _extract_wars, lines 908-983: one war entry, given the War row the query
\* found (0 for None) and the row the entry is recorded in
ExtractWar(s, g, war_dict, w, war) ==
    IF PassedOver(s, war_dict, w) THEN s
    ELSE _extract_combat_victories(
             ExtractParticipants(UpdateWar(s, war_dict, w), g, war, war_dict,
                                 war_dict.attackers \o war_dict.defenders),
             g, war, war_dict.battles)

\* the row the entry is recorded in: the one found, or the one added
WarRow(s, w) == IF NeedsNewWar(s, w) THEN Len(s.db.wars) + 1 ELSE w

RECURSIVE _extract_wars(_, _, _)
_extract_wars(s, g, wars) ==
    IF wars = <<>> \/ s.err THEN s
    ELSE _extract_wars(
             ExtractWar(s, g, Head(wars), MostRecentWar(s.db, Head(wars).name),
                        WarRow(s, MostRecentWar(s.db, Head(wars).name))),
             g, Tail(wars))

\* lines 1423-1428 with the two victories exchanged
TruceOutcomeReversed(d, w) ==
    IF attacker_war_exhaustion(d, w) < defender_war_exhaustion(d, w)
    THEN "defender_victory"
    ELSE IF defender_war_exhaustion(d, w) < attacker_war_exhaustion(d, w)
    THEN "attacker_victory"
    ELSE "status_quo"

\* _settle_finished_wars, lines 1423-1428: the outcome the exhaustion gives
TruceOutcome(d, w) ==
    IF attacker_war_exhaustion(d, w) < defender_war_exhaustion(d, w)
    THEN "attacker_victory"
    ELSE IF defender_war_exhaustion(d, w) < attacker_war_exhaustion(d, w)
    THEN "defender_victory"
    ELSE "status_quo"

\* lines 1419-1421: the start of the truce is the end of the war
TruceEnd(war_model, truce) ==
    IF truce.start_date = <<>> THEN war_model.end_date_days
    ELSE date_to_days(truce.start_date)

\* lines 1410-1430: one truce, given the War row the query found (0 for None)
SettleTruce(s, g, truce, w) ==
    IF truce.name = "" \/ truce.truce_type # "war" \/ w = 0 THEN s
    ELSE IF s.db.wars[w].outcome = "in_progress"
    THEN _history_add_peace_events(
             [s EXCEPT !.db.wars[w] =
                           [@ EXCEPT !.end_date_days = TruceEnd(s.db.wars[w], truce),
                                     !.outcome = TruceOutcome(s.db, w)]],
             g, w)
    ELSE [s EXCEPT !.db.wars[w].end_date_days =
                       TruceEnd(s.db.wars[w], truce)]

RECURSIVE SettleTruces(_, _, _)
SettleTruces(s, g, truces) ==
    IF truces = <<>> THEN s
    ELSE SettleTruces(SettleTruce(s, g, Head(truces),
                                  MostRecentWar(s.db, Head(truces).name)),
                      g, Tail(truces))

\* lines 1434-1438: wars in progress that no snapshot has listed for longer
\* than the staleness window
RECURSIVE SettleStaleWars(_, _, _)
SettleStaleWars(s, g, W) ==
    IF W = {} THEN s
    ELSE SettleStaleWars(
             IF s.db.wars[Min(W)].end_date_days < s.date - StaleDays
             THEN _history_add_peace_events(
                      [s EXCEPT !.db.wars[Min(W)].outcome = "unknown"],
                      g, Min(W))
             ELSE s,
             g, W \ {Min(W)})

\* _settle_finished_wars without the loop of lines 1433-1438
KeepStaleWars(s, g) == s

StaleWars(s, g) ==
    SettleStaleWars(s, g, {w \in Rows(s.db.wars) :
                              s.db.wars[w].outcome = "in_progress"})

_settle_finished_wars(s, g) ==
    IF s.err THEN s ELSE StaleWars(SettleTruces(s, g, g.truce), g)

-----------------------------------------------------------------------------
(* One call of process_gamestate *)

-----------------------------------------------------------------------------
(* Population statistics *)

\* lines 25-28, and the None of a population unit that names no faction
NO_FACTION_ID == 0 - 1
SLAVE_FACTION_ID == 0 - 2
NON_SENTIENT_ROBOT_FACTION_ID == 0 - 4
NoFaction == 0 - 1000

\* lines 317-323: the indices of the species of class ROBOT
_robot_species(g) ==
    {k - 1 : k \in {i \in DOMAIN g.species : g.species[i].class = "ROBOT"}}

\* lines 293-301: the country that owns the planet, NoneId when no country
\* lists it; a later country of the section overwrites an earlier one
_country_by_ingame_planet_id(g, planet_id) ==
    LET owners == {c \in DOMAIN g.country :
                      /\ g.country[c].is_dict
                      /\ planet_id \in g.country[c].owned_planets}
    IN IF owners = {} THEN NoneId ELSE Max(owners)

\* lines 338-343: the population units on the planets of the country, in the
\* order of the tree
CountryPops(g, country_id) ==
    SelectSeq(g.pop, LAMBDA pop_dict :
        _country_by_ingame_planet_id(g, pop_dict.planet) = country_id)

\* lines 348-355 with the robot test before the test for slaves
RobotFirstFactionId(pop_dict, robot_species) ==
    IF pop_dict.pop_faction # NoFaction THEN pop_dict.pop_faction
    ELSE IF pop_dict.species_index \in robot_species
    THEN NON_SENTIENT_ROBOT_FACTION_ID
    ELSE IF pop_dict.enslaved THEN SLAVE_FACTION_ID
    ELSE NO_FACTION_ID

\* lines 345-355: the faction id a population unit is counted under
PopFactionId(pop_dict, robot_species) ==
    IF pop_dict.pop_faction # NoFaction THEN pop_dict.pop_faction
    ELSE IF pop_dict.enslaved THEN SLAVE_FACTION_ID
    ELSE IF pop_dict.species_index \in robot_species
    THEN NON_SENTIENT_ROBOT_FACTION_ID
    ELSE NO_FACTION_ID

\* the keys the population units are counted under, one per unit
SpeciesOf(pops) == [i \in DOMAIN pops |-> pops[i].species_index]
FactionsOf(pops, robot_species) ==
    [i \in DOMAIN pops |-> PopFactionId(pops[i], robot_species)]
JobsOf(pops) == [i \in DOMAIN pops |-> pops[i].job]
StrataOf(pops) == [i \in DOMAIN pops |-> pops[i].category]
EthosOf(pops) == [i \in DOMAIN pops |-> pops[i].ethos]

\* the keys of a stats dictionary, in the order of their first use
RECURSIVE Distinct(_)
Distinct(keys) ==
    IF keys = <<>> THEN <<>>
    ELSE <<Head(keys)>>
         \o SelectSeq(Distinct(Tail(keys)), LAMBDA k : k # Head(keys))

\* lines 409-421: the Species row of every species counted; the rows of
\* PopStatsBySpecies are in a table the store here does not carry
RECURSIVE PopStatsBySpecies(_, _, _)
PopStatsBySpecies(s, g, species_ids) ==
    IF species_ids = <<>> \/ s.err THEN s
    ELSE PopStatsBySpecies(_get_or_add_species(s, g, Head(species_ids)), g,
                           Tail(species_ids))

\* lines 426-447: one PopStatsByFaction row for every faction id counted that
\* is the id of a PoliticalFaction row of the country
RECURSIVE PopStatsByFaction(_, _, _, _)
PopStatsByFaction(s, country_id, counted, faction_ids) ==
    IF faction_ids = <<>> \/ s.err THEN s
    ELSE PopStatsByFaction(
             IF FactionRow(s.db, Head(faction_ids), country_id) = 0 THEN s
             ELSE AddRow(s, "pop_stats_by_faction",
                         [date |-> s.date, country |-> country_id,
                          faction |-> Head(faction_ids),
                          pop_count |->
                              Len(SelectSeq(counted, LAMBDA f :
                                      f = Head(faction_ids)))]),
             country_id, counted, Tail(faction_ids))

\* lines 476-518: the shared descriptions of the jobs, the strata and the
\* ethics counted; the rows of the statistics by planet, job, stratum and
\* ethos are in tables the store here does not carry
RECURSIVE PopDescriptions(_, _)
PopDescriptions(s, texts) ==
    IF texts = <<>> \/ s.err THEN s
    ELSE PopDescriptions(_get_or_add_shared_description(s, Head(texts)),
                         Tail(texts))

\* _process_pop_data: country_data.country raises when the player's country
\* has no CountryData of the pass
_process_pop_data(s, g) ==
    IF s.err THEN s
    ELSE IF s.player_country_data = 0 THEN Raise(s)
    ELSE PopDescriptions(
             PopStatsByFaction(
                 PopStatsBySpecies(
                     s, g, Distinct(SpeciesOf(CountryPops(g, s.player)))),
                 s.player,
                 FactionsOf(CountryPops(g, s.player), _robot_species(g)),
                 Distinct(FactionsOf(CountryPops(g, s.player),
                                     _robot_species(g)))),
             Distinct(JobsOf(CountryPops(g, s.player)))
                 \o Distinct(StrataOf(CountryPops(g, s.player)))
                 \o Distinct(EthosOf(CountryPops(g, s.player))))

\* _process_gamestate, lines 219-222
WarsAndOwnership(s, g) ==
    IF extract_system_ownership
    THEN _extract_system_ownership(
             _settle_finished_wars(_extract_wars(s, g, g.war), g), g)
    ELSE _settle_finished_wars(_extract_wars(s, g, g.war), g)

\* _process_gamestate
_process_gamestate(s, g) ==
    _process_pop_data(
        WarsAndOwnership(
            ProcessCountries(
                _extract_species_and_initialize_species_by_id_dict(
                    AddRow(s, "game_states", [date |-> s.date]), g),
                g, DOMAIN g.country),
            g),
        g)

\* process_gamestate, lines 91-97: the Game row is created on the first call,
\* with the name of the player's country and the systems of the galaxy
NewGame(s, g) ==
    IF s.db.game THEN s
    ELSE IF s.player \notin DOMAIN g.country THEN Raise(s)
    ELSE _extract_galaxy_data([s EXCEPT !.db.game = TRUE], g)

\* lines 98-103
GamestatePass(s, g) ==
    IF s.err THEN s ELSE _process_gamestate(ReplaceGameState(s), g)

\* lines 89-103: the body of the try block
TryBlock(d, g) ==
    GamestatePass(NewGame(NewSession(d, date_to_days(g.date),
                                     g.player[1].country), g),
                  g)

\* session.rollback(): the store is what it was when the session was opened
RollbackKeepsWrites(d, s) == s.db

Rollback(d, s) == d

\* lines 106-110: what the except block does with the error
ExceptBlockReraises(debug) == "raised"

ExceptBlock(debug) == IF debug THEN "raised" ELSE "swallowed"

\* lines 103-110: the session s of the call is committed or rolled back
EndSession(s) ==
    /\ db' = IF s.err THEN Rollback(db, s) ELSE s.db
    /\ ret' = IF s.err THEN ExceptBlock(debug_mode) ELSE "committed"

\* __init__, lines 47-61: the attributes that hold one snapshot, all None.
\* _gamestate_dict is the set of the trees held, the others are NoneId, NoDay
\* or FALSE for None; indices stands for the five lookup dictionaries.
NewExtractor ==
    [_gamestate_dict |-> {}, _player_country_id |-> NoneId,
     _session |-> FALSE, _current_gamestate |-> FALSE,
     _date_in_days |-> NoDay, indices |-> FALSE]

\* line 84
HoldGamestate(e, g) == [e EXCEPT !._gamestate_dict = {g}]

\* lines 88-103: what the call has assigned when the try block is left,
\* whether by the commit or by an exception
InSession(e, g) ==
    [e EXCEPT !._player_country_id = g.player[1].country,
              !._session = TRUE,
              !._date_in_days = date_to_days(g.date),
              !._current_gamestate = TRUE,
              !.indices = TRUE]

\* _reset_state, called in the finally clause of line 111
_reset_state(e) ==
    [e EXCEPT !._gamestate_dict = {}, !._player_country_id = NoneId,
              !._session = FALSE, !._current_gamestate = FALSE,
              !._date_in_days = NoDay, !.indices = FALSE]

\* process_gamestate without the test of lines 84-86: the session is opened
\* for whatever the player list names first
ProcessFirstPlayer(g) ==
    /\ date_to_days(g.date) >= now
    /\ calls' = calls + 1
    /\ now' = date_to_days(g.date)
    /\ snap' = g
    /\ prev_snap' = snap
    /\ prev_ret' = ret
    /\ UNCHANGED <<debug_mode, tie_policy>>
    /\ extractor' = _reset_state(InSession(HoldGamestate(extractor, g), g))
    /\ EndSession(TryBlock(db, g))

\* process_gamestate: one call with the parsed save file g; the save files of
\* a game are processed in the order of their dates
process_gamestate(g) ==
    /\ date_to_days(g.date) >= now
    /\ calls' = calls + 1
    /\ now' = date_to_days(g.date)
    /\ snap' = g
    /\ prev_snap' = snap
    /\ prev_ret' = ret
    /\ UNCHANGED <<debug_mode, tie_policy>>
    /\ IF Cardinality({g.player[i].country : i \in DOMAIN g.player}) # 1
       THEN /\ ret' = "skipped"
            /\ db' = db
            /\ extractor' = HoldGamestate(extractor, g)
       ELSE /\ EndSession(TryBlock(db, g))
            /\ extractor' = _reset_state(InSession(HoldGamestate(extractor, g), g))

-----------------------------------------------------------------------------
(* Parsed save files *)

\* a country entry of the tree with the defaults dict.get gives absent keys;
\* surveyed is the length of the list, NoneId when the key is absent; is_dict
\* is isinstance(country_data_dict, dict)
DefaultCountry ==
    [is_dict |-> TRUE, type |-> "default", name |-> "Empire", ethic |-> {1}, civics |-> {1},
     authority |-> "auth_democratic", gov_type |-> "gov_republic",
     surveyed |-> 0, military_power |-> 0, budget |-> <<>>,
     attitude |-> "unknown", relation |-> <<>>, ruler |-> NoneId,
     capital |-> NoneId, owned_leaders |-> <<>>, owned_sectors |-> <<>>,
     owned_planets |-> {}]

Rival == [DefaultCountry EXCEPT !.name = "Rival"]

\* the entry "none" the save file keeps for a country that no longer exists
NoneCountry == [DefaultCountry EXCEPT !.is_dict = FALSE]

\* the human player of the save file
Player(country) == [name |-> "human", country |-> country]

\* a gamestate_dict with the player list and the country section given
Gamestate(date, player, country) ==
    [date |-> date, player |-> player, country |-> country,
     galactic_object |-> <<>>, starbases |-> <<>>, war |-> <<>>,
     truce |-> <<>>, leaders |-> <<>>, sectors |-> <<>>, planet |-> <<>>,
     pop_factions |-> <<>>, species |-> <<>>, pop |-> <<>>]

Day0 == <<2200, 1, 1>>
Day360 == <<2201, 1, 1>>
DayLate == <<2207, 1, 1>>

BudgetLine(name, energy) == [name |-> name, energy |-> energy]

\* a save file that names two player countries
AmbiguousGamestate ==
    Gamestate(Day0, <<Player(0), Player(1)>>, (0 :> DefaultCountry))

\* entries of the player's country (id 0)
PlayerEntries ==
    {DefaultCountry,
     [DefaultCountry EXCEPT !.type = "enclave"],
     [DefaultCountry EXCEPT !.military_power = 5,
                            !.budget = <<BudgetLine("ships", 0 - 3),
                                         BudgetLine("none", 7)>>]}

\* entries of another country (id 1)
OtherEntries ==
    {Rival,
     [Rival EXCEPT !.surveyed = NoneId],
     [Rival EXCEPT !.civics = {2},
                   !.budget = <<BudgetLine("ships", 0 - 1)>>]}

Gamestates ==
    {Gamestate(date, <<Player(0)>>, (0 :> p))
        : date \in {Day0, Day360}, p \in PlayerEntries}
    \cup
    {Gamestate(date, <<Player(0)>>, (0 :> p) @@ (1 :> o))
        : date \in {Day0, Day360}, p \in PlayerEntries, o \in OtherEntries}
    \cup
    {Gamestate(date, <<Player(1)>>, (0 :> DefaultCountry))
        : date \in {Day0, Day360}}
    \cup {AmbiguousGamestate}

\* save files whose player list names country 0 or country 1
PlayerGamestates ==
    {Gamestate(date, <<Player(p)>>, country)
        : date \in {Day0, Day360}, p \in {0, 1},
          country \in {(0 :> DefaultCountry), (1 :> Rival),
                       (0 :> DefaultCountry) @@ (1 :> Rival)}}
    \cup {AmbiguousGamestate}

\* entries of the player's country that differ in one attribute of the
\* government each
GovEntries ==
    {DefaultCountry,
     [DefaultCountry EXCEPT !.ethic = {2}],
     [DefaultCountry EXCEPT !.civics = {2}],
     [DefaultCountry EXCEPT !.authority = "auth_imperial"],
     [DefaultCountry EXCEPT !.gov_type = "gov_empire"],
     [DefaultCountry EXCEPT !.name = "Union"]}

GovGamestates ==
    {Gamestate(date, <<Player(0)>>, (0 :> e))
        : date \in {Day0, Day360, DayLate}, e \in GovEntries}
    \cup {AmbiguousGamestate}

\* a relation entry of a country towards another one
Relation(country) ==
    [country |-> country, is_rival |-> FALSE, closed_borders |-> FALSE,
     defensive_pact |-> FALSE, alliance |-> FALSE,
     non_aggression_pledge |-> FALSE, communications |-> FALSE,
     commercial_pact |-> FALSE]

\* save files with the relations of the player (id 0) and a rival (id 1)
DiploGamestates ==
    {Gamestate(date, <<Player(0)>>,
               (0 :> [DefaultCountry EXCEPT !.relation = player_relation])
               @@ (1 :> [Rival EXCEPT !.relation = rival_relation]))
        : date \in {Day0, Day360, DayLate},
          player_relation \in {<<>>,
                               <<[Relation(1) EXCEPT !.is_rival = TRUE]>>,
                               <<[Relation(2) EXCEPT !.is_rival = TRUE]>>},
          rival_relation \in {<<>>,
                              <<[Relation(0) EXCEPT !.communications = TRUE]>>,
                              <<[Relation(0) EXCEPT !.communications = TRUE,
                                                    !.defensive_pact = TRUE],
                                [Relation(0) EXCEPT !.is_rival = TRUE]>>}}
    \cup {AmbiguousGamestate}

\* save files in which the player may be in contact with country 1, which is
\* an empire or an enclave
TypeGamestates ==
    {Gamestate(date, <<Player(0)>>,
               (0 :> [DefaultCountry EXCEPT !.relation = player_relation])
               @@ (1 :> [Rival EXCEPT !.type = type]))
        : date \in {Day0, Day360, DayLate},
          type \in {"default", "enclave"},
          player_relation \in {<<>>,
                               <<[Relation(1) EXCEPT !.communications = TRUE]>>}}
    \cup {AmbiguousGamestate}

\* save files with leaders, a sector with its planets, and a faction
Leader(name, level, species_index) ==
    [name |-> name, level |-> level, date |-> Day0,
     species_index |-> species_index]

\* the species of the save files
Human == [name |-> "Human", class |-> "HUM", traits |-> <<"trait_adaptive">>]

Planet(name, planet_class) ==
    [name |-> name, planet_class |-> planet_class, colonize_date |-> <<>>,
     pop |-> TRUE, colonizer_pop |-> FALSE]

\* save files in which the player's country owns leader 10 or no leader
LeaderGamestates ==
    {[Gamestate(date, <<Player(0)>>,
                (0 :> [DefaultCountry EXCEPT !.owned_leaders = owned]))
         EXCEPT !.species = <<Human>>,
                !.leaders = (10 :> Leader(name, level, 0))]
        : date \in {Day0, Day360, DayLate},
          owned \in {<<10>>},
          name \in {"Ada", "Eve"},
          level \in {1, 2}}
    \cup
    {[Gamestate(date, <<Player(0)>>, (0 :> DefaultCountry))
         EXCEPT !.species = <<Human>>,
                !.leaders = (10 :> Leader("Ada", 1, 0))]
        : date \in {Day0, Day360, DayLate}}
    \cup {AmbiguousGamestate}

EventGamestates ==
    {[Gamestate(date, <<Player(0)>>,
                (0 :> [DefaultCountry EXCEPT !.ruler = 10, !.capital = 5,
                                             !.owned_leaders = <<10>>,
                                             !.owned_sectors = <<0>>])
                @@ (1 :> [Rival EXCEPT !.owned_leaders = <<11>>,
                                       !.attitude = attitude,
                                       !.relation = v.relation]))
         EXCEPT !.species = <<Human>>,
                !.leaders = (10 :> Leader("Ada", v.level, 0))
                            @@ (11 :> Leader("Bo", 1, 0 - 1)),
                !.galactic_object =
                    (1 :> [name |-> "Sol", planet |-> <<5, 6, 7>>]),
                !.planet = (5 :> Planet("Earth", "pc_continental"))
                           @@ (6 :> Planet("Ring", v.planet_class))
                           @@ (7 :> Planet("Rubble", "pc_shattered")),
                !.sectors = (0 :> [name |-> "Core", governor |-> 10,
                                   local_capital |-> 5, systems |-> <<1>>]),
                !.pop_factions = (3 :> [country |-> 1, name |-> "Traders",
                                        type |-> "prosperity",
                                        leader |-> 11])]
        : date \in {Day0, Day360, DayLate},
          attitude \in {"friendly", "unknown"},
          v \in {[relation |-> <<>>, level |-> 1,
                  planet_class |-> "pc_habitat"],
                 [relation |-> <<[Relation(0) EXCEPT !.communications = TRUE]>>,
                  level |-> 2, planet_class |-> "pc_ringworld_habitable"]}}
    \cup {AmbiguousGamestate}

\* a species of robots, and a population unit with the defaults dict.get
\* gives absent keys
Droid == [name |-> "Droid", class |-> "ROBOT", traits |-> <<>>]

Pop(planet, species_index, pop_faction, enslaved) ==
    [planet |-> planet, species_index |-> species_index,
     pop_faction |-> pop_faction, enslaved |-> enslaved,
     job |-> "unemployed", category |-> "unknown stratum",
     ethos |-> "ethic_no_ethos"]

\* save files with the population of planet 5 of the player and of planet 6
\* of the rival; species 0 is human, species 1 is a robot, and faction 3 is a
\* faction of the player's country
PopGamestates ==
    {[Gamestate(date, <<Player(0)>>,
                (0 :> [DefaultCountry EXCEPT !.owned_planets = {5}])
                @@ (1 :> [Rival EXCEPT !.owned_planets = {6}]))
         EXCEPT !.species = <<Human, Droid>>,
                !.pop_factions = (3 :> [country |-> 0, name |-> "Traders",
                                        type |-> "prosperity",
                                        leader |-> NoneId]),
                !.pop = pop]
        : date \in {Day0, Day360},
          pop \in {<<>>,
                   <<Pop(5, 0, NoFaction, FALSE), Pop(5, 1, NoFaction, TRUE)>>,
                   <<Pop(5, 1, NoFaction, FALSE), Pop(5, 0, NoFaction, TRUE),
                     Pop(5, 1, NoFaction, FALSE)>>,
                   <<Pop(5, 1, 3, TRUE), Pop(6, 1, NoFaction, FALSE),
                     Pop(5, 0, 3, FALSE)>>}}
    \cup {AmbiguousGamestate}

\* five years and ten years after the first save file
Day1800 == <<2205, 1, 1>>
Day3600 == <<2210, 1, 1>>

\* the save files of EventGamestates at day 0, day 1800 and day 3600
StaleGamestates ==
    {[g EXCEPT !.date = date]
        : g \in EventGamestates, date \in {Day0, Day1800, Day3600}}

\* the save files of EventGamestates, and the same with no sector owned by
\* the player's country: no pass then makes a Planet row for its capital
CapitalGamestates ==
    EventGamestates
    \cup {[g EXCEPT !.country[0].owned_sectors = <<>>] : g \in EventGamestates}

\* save files with the starbases of one system and a reforming rival whose
\* ruler and capital are known
OwnershipGamestates ==
    {[Gamestate(date, <<Player(0)>>,
                (0 :> DefaultCountry)
                @@ (1 :> [Rival EXCEPT !.civics = civics, !.ruler = 11,
                                       !.capital = 5,
                                       !.owned_leaders = <<11>>,
                                       !.owned_sectors = <<0>>]))
         EXCEPT !.species = <<Human>>,
                !.leaders = (11 :> Leader("Bo", 1, 0)),
                !.galactic_object = (1 :> [name |-> "Sol", planet |-> <<5>>]),
                !.planet = (5 :> Planet("Home", "pc_continental")),
                !.sectors = (0 :> [name |-> "Core", governor |-> NoneId,
                                   local_capital |-> 5, systems |-> <<1>>]),
                !.starbases = starbases]
        : date \in {Day0, Day360},
          civics \in {{1}, {2}},
          starbases \in {<<>>,
                         <<[system |-> 1, owner |-> 0]>>,
                         <<[system |-> 1, owner |-> 1]>>,
                         <<[system |-> 2, owner |-> 1],
                           [system |-> 1, owner |-> 3]>>}}
    \cup {AmbiguousGamestate}

\* save files with one war between the player and the rival
WarEntry ==
    [name |-> "Border War", start_date |-> Day0,
     defender_force_peace |-> FALSE, defender_force_peace_date |-> Day0,
     attacker_force_peace |-> FALSE, attacker_force_peace_date |-> Day0,
     attackers |-> <<0>>, defenders |-> <<1>>,
     attacker_war_goal |-> "wg_conquest", defender_war_goal |-> "",
     battles |-> <<>>]

Battle ==
    [attackers |-> <<0>>, defenders |-> <<1>>, attacker_victory |-> "yes",
     planet |-> NoneId, system |-> 1, type |-> "ships", date |-> Day0,
     attacker_war_exhaustion |-> 30, defender_war_exhaustion |-> 10]

Truce(date) == [name |-> "Border War", truce_type |-> "war", start_date |-> date]

WarGamestates ==
    {[Gamestate(date, <<Player(0)>>, (0 :> DefaultCountry) @@ (1 :> Rival))
         EXCEPT !.galactic_object = (1 :> [name |-> "Sol", planet |-> <<>>]),
                !.war = war, !.truce = truce]
        : date \in {Day0, Day360, DayLate},
          war \in {<<>>,
                   <<WarEntry>>,
                   <<[WarEntry EXCEPT !.battles = <<Battle>>]>>,
                   <<[WarEntry EXCEPT !.attacker_force_peace = TRUE,
                                      !.attacker_force_peace_date = Day360]>>},
          truce \in {<<>>, <<Truce(Day360)>>}}
    \cup {AmbiguousGamestate}

\* save files with a war of the player against two countries, the first of
\* which may have left the country section as "none"
PartyGamestates ==
    {[Gamestate(date, <<Player(0)>>,
                (0 :> DefaultCountry) @@ (1 :> first) @@ (2 :> Rival))
         EXCEPT !.galactic_object = (1 :> [name |-> "Sol", planet |-> <<>>]),
                !.war = war]
        : date \in {Day0, Day360, DayLate},
          first \in {Rival, NoneCountry},
          war \in {<<>>,
                   <<[WarEntry EXCEPT !.defenders = <<1>>]>>,
                   <<[WarEntry EXCEPT !.defenders = <<1, 2>>]>>,
                   <<[WarEntry EXCEPT !.attackers = <<0, 1>>,
                                      !.defenders = <<2>>]>>}}
    \cup {AmbiguousGamestate}

\* a fleet battle without exhaustion worth recording, and a ground battle
\* without any
Skirmish ==
    [Battle EXCEPT !.attacker_war_exhaustion = 1,
                   !.defender_war_exhaustion = 0]

Landing ==
    [Battle EXCEPT !.type = "armies", !.attacker_victory = "no",
                   !.attacker_war_exhaustion = 0,
                   !.defender_war_exhaustion = 0]

\* save files with the war and some of its battles
BattleGamestates ==
    {[Gamestate(date, <<Player(0)>>, (0 :> DefaultCountry) @@ (1 :> Rival))
         EXCEPT !.galactic_object = (1 :> [name |-> "Sol", planet |-> <<>>]),
                !.war = <<[WarEntry EXCEPT !.battles = battles]>>]
        : date \in {Day0, Day360, DayLate},
          battles \in {<<>>, <<Battle>>, <<Skirmish>>, <<Landing>>,
                       <<Battle, Skirmish>>, <<Battle, Landing>>}}
    \cup {AmbiguousGamestate}

-----------------------------------------------------------------------------
(* The lexer of save files (token_value_stream_re.py) *)

\* the characters of the texts of the model: one or more of every class a
\* pattern names, and one that no pattern names
Alphabet == {"{", "}", "=", "\"", "a", "1", ".", "-", " ", "\n", "@"}

WhitespaceChars == {"\t", "\n", " "}
Digits == {"1"}
Letters == {"a"}

\* re.match found nothing
NoMatch == 0 - 1

\* the length of the longest run of characters of S that starts at the
\* 0-based position pos (a starred character class)
Run(text, pos, S) ==
    Max({k \in pos..Len(text) : \A j \in (pos + 1)..k : text[j] \in S}) - pos

\* the character at a 0-based position is c
CharIs(text, pos, c) == pos < Len(text) /\ text[pos + 1] = c

\* WHITESPACE = '[\t\n ]*': matches at every position, the empty text included
WHITESPACE(text, pos) == Run(text, pos, WhitespaceChars)

EQ(text, pos) == IF CharIs(text, pos, "=") THEN 1 ELSE NoMatch

BR_OPEN(text, pos) == IF CharIs(text, pos, "{") THEN 1 ELSE NoMatch

BR_CLOSE(text, pos) == IF CharIs(text, pos, "}") THEN 1 ELSE NoMatch

\* Q_STR = '"[^"]*"': from a quote to the next quote, line breaks included
Q_STR(text, pos) ==
    IF CharIs(text, pos, "\"")
       /\ \E k \in (pos + 2)..Len(text) : text[k] = "\""
    THEN Min({k \in (pos + 2)..Len(text) : text[k] = "\""}) - pos
    ELSE NoMatch

\* IDENTIFIER = '[0-9_]*[a-zA-Z_]+[a-zA-Z0-9_]*': the run of letters and
\* digits at the position, when it holds a letter
IDENTIFIER(text, pos) ==
    IF \E j \in (pos + 1)..(pos + Run(text, pos, Letters \cup Digits)) :
           text[j] \in Letters
    THEN Run(text, pos, Letters \cup Digits)
    ELSE NoMatch

\* the length of '-?' at the position
Sign(text, pos) == IF CharIs(text, pos, "-") THEN 1 ELSE 0

\* the length of '-?[0-9]+' at the position, given the length of the sign
SignedDigits(text, pos, sign) ==
    IF Run(text, pos + sign, Digits) >= 1
    THEN sign + Run(text, pos + sign, Digits)
    ELSE NoMatch

\* INT = '-?[0-9]+'
INT(text, pos) == SignedDigits(text, pos, Sign(text, pos))

\* FLOAT = '-?[0-9]+\.[0-9]*', given the length of '-?[0-9]+'
FloatAfter(text, pos, int) ==
    IF int # NoMatch /\ CharIs(text, pos + int, ".")
    THEN int + 1 + Run(text, pos + int + 1, Digits)
    ELSE NoMatch

FLOAT(text, pos) == FloatAfter(text, pos, INT(text, pos))

\* REG_EXES: the patterns in the order they are tried
REG_EXES(text, pos) ==
    <<BR_OPEN(text, pos), BR_CLOSE(text, pos), EQ(text, pos), Q_STR(text, pos),
      IDENTIFIER(text, pos), FLOAT(text, pos), INT(text, pos)>>

\* lines 35-41: the length of the match of the first pattern that matches,
\* NoMatch when the for loop ends without a break
FirstMatch(lengths) ==
    IF \A i \in DOMAIN lengths : lengths[i] = NoMatch THEN NoMatch
    ELSE lengths[Min({i \in DOMAIN lengths : lengths[i] # NoMatch})]

\* lines 31-33: the line breaks of the whitespace skipped
LineBreaks(text, pos, ws) ==
    Cardinality({j \in (pos + 1)..(pos + ws) : text[j] = "\n"})

\* lines 35-41, given the position and the line after the whitespace and the
\* length of the first match
YieldToken(pos, line, len) ==
    /\ start_index' = IF len = NoMatch THEN pos ELSE pos + len
    /\ tokens' = IF len = NoMatch THEN tokens
                 ELSE Append(tokens,
                             <<SubSeq(gamestate, pos + 1, pos + len), line>>)

\* lines 28-34, given the length of the whitespace at the read position
SkipWhitespace(ws) ==
    /\ line_number' = line_number + LineBreaks(gamestate, start_index, ws)
    /\ YieldToken(start_index + ws,
                  line_number + LineBreaks(gamestate, start_index, ws),
                  FirstMatch(REG_EXES(gamestate, start_index + ws)))

\* token_value_stream, lines 27-41: one iteration of the while loop
LoopIteration ==
    /\ start_index < Len(gamestate)
    /\ iterations < MaxIter
    /\ iterations' = iterations + 1
    /\ SkipWhitespace(WHITESPACE(gamestate, start_index))
    /\ UNCHANGED gamestate

\* the monitor is not running
MonitorIdle ==
    /\ stop_event = FALSE
    /\ pc = "idle"
    /\ nothing_new = TRUE
    /\ pending = 0
    /\ shutdowns = 0

\* the dashboard is not asked for the leaders
DashIdle ==
    /\ session_leaders = <<>>
    /\ leader_dicts = <<>>
    /\ dicts_returned = FALSE

\* no text is being lexed
LexIdle ==
    /\ gamestate = <<>>
    /\ start_index = 0
    /\ line_number = 1
    /\ tokens = <<>>
    /\ iterations = 0

\* the texts of the model
Texts == UNION {[1..n -> Alphabet] : n \in 0..MaxLen}

\* token_value_stream, lines 24-26: the generator is started on a text
InitLex ==
    /\ gamestate \in Texts
    /\ start_index = 0
    /\ line_number = 1
    /\ tokens = <<>>
    /\ iterations = 0
    /\ db = EmptyDb
    /\ now = 0
    /\ calls = 0
    /\ ret = "none"
    /\ snap = Gamestate(Day0, <<Player(0)>>, (0 :> DefaultCountry))
    /\ prev_ret = "none"
    /\ prev_snap = snap
    /\ debug_mode = FALSE
    /\ tie_policy = "oldest"
    /\ extractor = NewExtractor
    /\ MonitorIdle
    /\ DashIdle

NextLex == LoopIteration /\ UNCHANGED <<tlevars, monvars, dashvars>>

SpecLex == InitLex /\ [][NextLex]_vars

\* texts of quotes, line breaks, letters and blanks, long enough for a token
\* after a quoted text that holds a line break
LineTexts == UNION {[1..n -> {"\"", "\n", "a", " "}] : n \in 0..MaxText}

\* token_value_stream, lines 24-26: the generator is started on such a text
InitLines ==
    /\ gamestate \in LineTexts
    /\ start_index = 0
    /\ line_number = 1
    /\ tokens = <<>>
    /\ iterations = 0
    /\ db = EmptyDb
    /\ now = 0
    /\ calls = 0
    /\ ret = "none"
    /\ snap = Gamestate(Day0, <<Player(0)>>, (0 :> DefaultCountry))
    /\ prev_ret = "none"
    /\ prev_snap = snap
    /\ debug_mode = FALSE
    /\ tie_policy = "oldest"
    /\ extractor = NewExtractor
    /\ MonitorIdle
    /\ DashIdle

SpecLines == InitLines /\ [][NextLex]_vars

-----------------------------------------------------------------------------
(* The save file monitor (cli.py, f_monitor_saves) *)

\* stop_event.is_set() never seeing the event
is_set_never == FALSE

\* stop_event.is_set()
is_set == stop_event

\* the save files a poll of the reader can find
MonitorGamestates ==
    {Gamestate(Day0, <<Player(0)>>, (0 :> DefaultCountry)),
     Gamestate(Day360, <<Player(0)>>, (0 :> DefaultCountry)),
     AmbiguousGamestate}

\* lines 133-135: the test of the while loop; in the loop a poll of the reader
\* is started, which finds some number of new save files
WhileTest ==
    /\ pc = "while"
    /\ IF is_set
       THEN pc' = "returned" /\ UNCHANGED <<nothing_new, pending>>
       ELSE /\ pc' = "for"
            /\ nothing_new' = TRUE
            /\ pending' \in 0..(MaxCalls - calls)
    /\ UNCHANGED <<stop_event, shutdowns, tlevars, lexvars, dashvars>>

\* lines 135-140 without the test of line 136
ForNextUntested ==
    /\ pc = "for"
    /\ IF pending = 0
       THEN /\ pc' = "after_for"
            /\ UNCHANGED <<nothing_new, pending>>
       ELSE /\ pc' = "process"
            /\ pending' = pending - 1
            /\ nothing_new' = FALSE
    /\ UNCHANGED <<stop_event, shutdowns, tlevars, lexvars, dashvars>>

\* lines 135-140: the for loop ends when the poll has no further save file;
\* with a save file at hand it tests the event, and either shuts the reader
\* down and breaks, or goes on to the call of line 141
ForNext ==
    /\ pc = "for"
    /\ IF pending = 0
       THEN /\ pc' = "after_for"
            /\ UNCHANGED <<nothing_new, pending, shutdowns>>
       ELSE IF is_set
       THEN /\ pc' = "after_for"
            /\ pending' = 0
            /\ shutdowns' = shutdowns + 1
            /\ UNCHANGED nothing_new
       ELSE /\ pc' = "process"
            /\ pending' = pending - 1
            /\ nothing_new' = FALSE
            /\ UNCHANGED shutdowns
    /\ UNCHANGED <<stop_event, tlevars, lexvars, dashvars>>

\* line 141: process_gamestate is entered
StartCall ==
    /\ pc = "process"
    /\ pc' = "in_call"
    /\ UNCHANGED <<stop_event, nothing_new, pending, shutdowns, tlevars,
                   lexvars, dashvars>>

\* lines 141-143: process_gamestate runs with the save file and returns
ProcessSave ==
    /\ pc = "in_call"
    /\ pc' = "for"
    /\ \E g \in MonitorGamestates : process_gamestate(g)
    /\ UNCHANGED <<stop_event, nothing_new, pending, shutdowns, lexvars, dashvars>>

\* lines 144-148: after the for loop; stop_event.wait(polling_interval)
\* returns at once when the event is set and blocks otherwise
AfterFor ==
    /\ pc = "after_for"
    /\ pc' = IF nothing_new /\ ~stop_event THEN "wait" ELSE "while"
    /\ UNCHANGED <<stop_event, nothing_new, pending, shutdowns, tlevars,
                   lexvars, dashvars>>

\* line 148: the timed wait ends, by the event or by the timeout
WaitReturns ==
    /\ pc = "wait"
    /\ pc' = "while"
    /\ UNCHANGED <<stop_event, nothing_new, pending, shutdowns, tlevars,
                   lexvars, dashvars>>

\* another thread sets the event
SetStop ==
    /\ ~stop_event
    /\ pc # "returned"
    /\ stop_event' = TRUE
    /\ UNCHANGED <<pc, nothing_new, pending, shutdowns, tlevars, lexvars, dashvars>>

\* the steps of the monitor's thread outside process_gamestate
MonitorStep == WhileTest \/ ForNext \/ StartCall \/ AfterFor \/ WaitReturns

\* lines 122-132: the monitor is started with a fresh extractor
InitMonitor ==
    /\ stop_event = FALSE
    /\ pc = "while"
    /\ nothing_new = TRUE
    /\ pending = 0
    /\ shutdowns = 0
    /\ db = EmptyDb
    /\ now = 0
    /\ calls = 0
    /\ ret = "none"
    /\ snap = Gamestate(Day0, <<Player(0)>>, (0 :> DefaultCountry))
    /\ prev_ret = "none"
    /\ prev_snap = snap
    /\ debug_mode \in BOOLEAN
    /\ tie_policy = "oldest"
    /\ extractor = NewExtractor
    /\ LexIdle
    /\ DashIdle

NextMonitor == MonitorStep \/ ProcessSave \/ SetStop

\* the monitor's thread keeps running and every process_gamestate call
\* returns; the event may never be set
SpecMonitor ==
    /\ InitMonitor /\ [][NextMonitor]_vars
    /\ WF_vars(MonitorStep)
    /\ []<>(pc # "in_call")

-----------------------------------------------------------------------------
(* dash_server.get_leader_dicts *)

\* str.lower on the characters of the names here
Lower(c) == IF c = "A" THEN "a" ELSE c

\* str.split(): the words of a name, the runs of characters other than blanks
RECURSIVE Words(_)
Words(name) ==
    IF name = <<>> THEN <<>>
    ELSE IF Head(name) = " " THEN Words(Tail(name))
    ELSE LET n == Max({k \in 1..Len(name) :
                          \A j \in 1..k : name[j] # " "})
         IN <<SubSeq(name, 1, n)>> \o Words(SubSeq(name, n + 1, Len(name)))

\* "_".join(words)
RECURSIVE Join(_)
Join(words) ==
    IF words = <<>> THEN <<>>
    ELSE IF Len(words) = 1 THEN words[1]
    ELSE words[1] \o <<"_">> \o Join(Tail(words))

\* line 350: "_".join(leader.leader_name.split()).lower()
base_ruler_id(leader_name) ==
    [i \in DOMAIN Join(Words(leader_name)) |->
        Lower(Join(Words(leader_name))[i])]

\* f"{base_ruler_id}_{id_offset}"
Suffixed(base, id_offset) ==
    base \o <<"_", <<"0", "1", "2", "3", "4", "5", "6", "7", "8", "9">>[id_offset + 1]>>

\* lines 351-355: the id of the leader, given the ids assigned so far
ruler_id(base, assigned_ids) ==
    IF base \notin assigned_ids THEN base
    ELSE Suffixed(base, Min({id_offset \in 2..9 :
                                Suffixed(base, id_offset) \notin assigned_ids}))

\* lines 359-385: the dictionary of one leader, with the class the lists
\* are filled by
LeaderDict(leader, assigned_ids) ==
    [name |-> leader.leader_name,
     id |-> ruler_id(base_ruler_id(leader.leader_name), assigned_ids),
     class |-> leader.leader_class]

\* lines 349-385: the loop over the Leader rows; assigned_ids is the empty set
\* of line 348 throughout, as no statement of the function adds to it
RECURSIVE LeaderDicts(_, _)
LeaderDicts(leaders, assigned_ids) ==
    IF leaders = <<>> THEN <<>>
    ELSE <<LeaderDict(Head(leaders), assigned_ids)>>
         \o LeaderDicts(Tail(leaders), assigned_ids)

\* lines 387-394: rulers + scientists + governors + admirals + generals; a
\* leader of another class is in none of the lists
ByClass(dicts) ==
    SelectSeq(dicts, LAMBDA d : d.class = "ruler")
    \o SelectSeq(dicts, LAMBDA d : d.class = "scientist")
    \o SelectSeq(dicts, LAMBDA d : d.class = "governor")
    \o SelectSeq(dicts, LAMBDA d : d.class = "admiral")
    \o SelectSeq(dicts, LAMBDA d : d.class = "general")

\* get_leader_dicts(session, most_recent_date)
get_leader_dicts ==
    /\ ~dicts_returned
    /\ dicts_returned' = TRUE
    /\ leader_dicts' = ByClass(LeaderDicts(session_leaders, {}))
    /\ UNCHANGED <<session_leaders, tlevars, lexvars, monvars>>

\* the names and the Leader rows of the model
LeaderNames == UNION {[1..n -> {"a", "A", " "}] : n \in 1..2}

LeaderRows ==
    [leader_name : LeaderNames, leader_class : {"ruler", "scientist", "envoy"}]

\* the store holds some Leader rows when the dashboard asks for them
InitDash ==
    /\ session_leaders \in UNION {[1..n -> LeaderRows] : n \in 0..MaxLeaders}
    /\ leader_dicts = <<>>
    /\ dicts_returned = FALSE
    /\ db = EmptyDb
    /\ now = 0
    /\ calls = 0
    /\ ret = "none"
    /\ snap = Gamestate(Day0, <<Player(0)>>, (0 :> DefaultCountry))
    /\ prev_ret = "none"
    /\ prev_snap = snap
    /\ debug_mode = FALSE
    /\ tie_policy = "oldest"
    /\ extractor = NewExtractor
    /\ LexIdle
    /\ stop_event = FALSE
    /\ pc = "idle"
    /\ nothing_new = TRUE
    /\ pending = 0
    /\ shutdowns = 0

NextDash == get_leader_dicts

SpecDash == InitDash /\ [][NextDash]_vars

-----------------------------------------------------------------------------
(* The extractor fed with the save files of one game *)

Init ==
    /\ db = EmptyDb
    /\ now = 0
    /\ calls = 0
    /\ ret = "none"
    /\ snap = Gamestate(Day0, <<Player(0)>>, (0 :> DefaultCountry))
    /\ prev_ret = "none"
    /\ prev_snap = snap
    /\ debug_mode \in BOOLEAN
    /\ tie_policy \in {"oldest", "newest"}
    /\ extractor = NewExtractor
    /\ LexIdle
    /\ MonitorIdle
    /\ DashIdle

Next ==
    /\ calls < MaxCalls /\ \E g \in Gamestates : process_gamestate(g)
    /\ UNCHANGED <<lexvars, monvars, dashvars>>

Spec == Init /\ [][Next]_vars

NextDiplo ==
    /\ calls < MaxCalls /\ \E g \in DiploGamestates : process_gamestate(g)
    /\ UNCHANGED <<lexvars, monvars, dashvars>>

SpecDiplo == Init /\ [][NextDiplo]_vars

NextEvents ==
    /\ calls < MaxCalls /\ \E g \in EventGamestates : process_gamestate(g)
    /\ UNCHANGED <<lexvars, monvars, dashvars>>

SpecEvents == Init /\ [][NextEvents]_vars

NextOwnership ==
    /\ calls < MaxCalls /\ \E g \in OwnershipGamestates : process_gamestate(g)
    /\ UNCHANGED <<lexvars, monvars, dashvars>>

SpecOwnership == Init /\ [][NextOwnership]_vars

NextWar ==
    /\ calls < MaxCalls /\ \E g \in WarGamestates : process_gamestate(g)
    /\ UNCHANGED <<lexvars, monvars, dashvars>>

SpecWar == Init /\ [][NextWar]_vars

\* the same game saved by the players of two countries
NextPlayer ==
    /\ calls < MaxCalls /\ \E g \in PlayerGamestates : process_gamestate(g)
    /\ UNCHANGED <<lexvars, monvars, dashvars>>

SpecPlayer == Init /\ [][NextPlayer]_vars

\* a game in which the government of the player's country changes
NextGov ==
    /\ calls < MaxCalls /\ \E g \in GovGamestates : process_gamestate(g)
    /\ UNCHANGED <<lexvars, monvars, dashvars>>

SpecGov == Init /\ [][NextGov]_vars

\* a game in which the leader of the player's country comes and goes
NextLeaders ==
    /\ calls < MaxCalls /\ \E g \in LeaderGamestates : process_gamestate(g)
    /\ UNCHANGED <<lexvars, monvars, dashvars>>

SpecLeaders == Init /\ [][NextLeaders]_vars

\* a war whose battles are reported again in later save files
NextBattle ==
    /\ calls < MaxCalls /\ \E g \in BattleGamestates : process_gamestate(g)
    /\ UNCHANGED <<lexvars, monvars, dashvars>>

SpecBattle == Init /\ [][NextBattle]_vars

\* a game saved at intervals of exactly five years
NextStale ==
    /\ calls < MaxCalls /\ \E g \in StaleGamestates : process_gamestate(g)
    /\ UNCHANGED <<lexvars, monvars, dashvars>>

SpecStale == Init /\ [][NextStale]_vars

\* a game in which the capital of the player's country may have no Planet row
\* wars whose parties may have no Country row
NextParty ==
    /\ calls < MaxCalls
    /\ \E g \in PartyGamestates : process_gamestate(g)
    /\ UNCHANGED <<lexvars, monvars, dashvars>>

SpecParty == Init /\ [][NextParty]_vars

\* countries of a type the pass does not read
NextType ==
    /\ calls < MaxCalls
    /\ \E g \in TypeGamestates : process_gamestate(g)
    /\ UNCHANGED <<lexvars, monvars, dashvars>>

SpecType == Init /\ [][NextType]_vars

\* the population of the player's planets
NextPop ==
    /\ calls < MaxCalls
    /\ \E g \in PopGamestates : process_gamestate(g)
    /\ UNCHANGED <<lexvars, monvars, dashvars>>

SpecPop == Init /\ [][NextPop]_vars

NextCapital ==
    /\ calls < MaxCalls /\ \E g \in CapitalGamestates : process_gamestate(g)
    /\ UNCHANGED <<lexvars, monvars, dashvars>>

SpecCapital == Init /\ [][NextCapital]_vars

-----------------------------------------------------------------------------
(* Properties *)

\* a call whose try block raised
Failed(r) == r \in {"raised", "swallowed"}

\* the Government rows of a country
GovernmentsOf(d, c) == {i \in Rows(d.governments) : d.governments[i].country = c}

\* the CountryData rows of a country and a day
CountryDataOf(d, c, day) ==
    {i \in Rows(d.country_data) :
        d.country_data[i].country = c /\ d.country_data[i].date = day}

\* the countries of a tree that _process_gamestate takes past the type check
Processed(g) ==
    {c \in DOMAIN g.country : g.country[c].type \in SUPPORTED_COUNTRY_TYPES}

\* C1: a call that fails after the session was opened leaves the persisted
\* history exactly as it was before the call.
C1_RollbackRestoresHistory == [][Failed(ret') => db' = db]_vars

\* C1 witness: a call failed although a GameState of its day was stored and
\* the player's country was in the tree, so the deletion of that row and the
\* writes of the pass were undone.
C1_Witness ==
    /\ Failed(ret)
    /\ \E i \in Rows(db.game_states) :
           db.game_states[i].date = date_to_days(snap.date)
    /\ snap.player[1].country \in DOMAIN snap.country

\* C2: a second call with the same day and an identical tree leaves exactly
\* one GameState row of the day, exactly one CountryData row of the day for
\* every processed country, and the CountryData values of the first call.
C2_IdempotentReplace ==
    [][(ret = "committed" /\ ret' = "committed" /\ calls' = calls + 1
        /\ snap' = snap)
        => /\ Cardinality({i \in Rows(db'.game_states) :
                             db'.game_states[i].date = now}) = 1
           /\ \A c \in Processed(snap) :
                 Cardinality(CountryDataOf(db', c, now)) = 1
           /\ {db'.country_data[i] : i \in {j \in Rows(db'.country_data) :
                                             db'.country_data[j].date = now}}
              = {db.country_data[i] : i \in {j \in Rows(db.country_data) :
                                             db.country_data[j].date = now}}]_vars

\* C2 witness: the same tree was committed twice in a row, with two countries
\* processed and a budget line summed.
C2_Witness ==
    /\ calls >= 2 /\ ret = "committed" /\ prev_ret = "committed"
    /\ snap = prev_snap
    /\ Cardinality(Processed(snap)) = 2
    /\ \E i \in Rows(db.country_data) : db.country_data[i].net_energy # 0

\* C3: once the outcome of a War row is not in_progress, no later call
\* changes it.
C3_WarOutcomeFinal ==
    [][\A w \in Rows(db.wars) :
          db.wars[w].outcome # "in_progress"
              => db'.wars[w].outcome = db.wars[w].outcome]_vars

\* C4: an event whose event_is_known_to_player is true keeps the flag true
\* through every later call.
C4_KnownStaysKnown ==
    [][\A i \in Rows(db.events) :
          db.events[i].event_is_known_to_player
              => /\ i \in Rows(db'.events)
                 /\ db'.events[i].event_is_known_to_player]_vars

\* C4 witness: a committed pass extended a faction_leader event known to the
\* player while the country's latest attitude reveals no demographics, and
\* extended a ruled_empire event known to the player.
C4_Witness ==
    /\ ret = "committed"
    /\ \E i \in Rows(db.events) :
          /\ db.events[i].event_type = "faction_leader"
          /\ db.events[i].event_is_known_to_player
          /\ db.events[i].start_date_days < now
          /\ db.events[i].end_date_days = now
          /\ ~RevealsDemographics(
                  db, get_most_recent_data(db, db.events[i].country))
    /\ \E i \in Rows(db.events) :
          /\ db.events[i].event_type = "ruled_empire"
          /\ db.events[i].event_is_known_to_player
          /\ db.events[i].start_date_days < now - 1
          /\ db.events[i].end_date_days = now - 1

\* the (event type, country, target country) triples whose relation a pass
\* over tree g observes, the store being d before the pass: the first
\* relation of every processed country whose target has a Country row
ObservedDiplo(d, g) ==
    UNION {UNION {{<<t[1], c, Head(g.country[c].relation).country>>,
                   <<t[2], Head(g.country[c].relation).country, c>>}
                  : t \in {x \in Range(diplo_relations(
                                           Head(g.country[c].relation))) : x[3]}}
           : c \in {x \in Processed(g) :
                      /\ g.country[x].relation # <<>>
                      /\ CountryRow(d, Head(g.country[x].relation).country) # 0}}

\* the events of a triple
DiploEventsOf(d, k) ==
    {i \in Rows(d.events) : /\ d.events[i].event_type = k[1]
                            /\ d.events[i].country = k[2]
                            /\ d.events[i].target_country = k[3]}

\* C5: a committed pass at day d that observes a relation whose most recent
\* event ended at day e sets that event's end to d and creates no event of
\* the triple when d - e < 1800, and creates one event with start = end = d
\* and leaves the old event unchanged when d - e > 1800.
C5_ExtendOrCreate ==
    [][ret' = "committed" =>
        \A k \in ObservedDiplo(db, snap') :
          MatchingDiploEvent(db, k[1], k[2], k[3]) # 0 =>
            /\ now' - db.events[MatchingDiploEvent(db, k[1], k[2], k[3])]
                        .end_date_days < StaleDays
               => /\ DiploEventsOf(db', k) = DiploEventsOf(db, k)
                  /\ db'.events[MatchingDiploEvent(db, k[1], k[2], k[3])]
                     = [db.events[MatchingDiploEvent(db, k[1], k[2], k[3])]
                           EXCEPT !.end_date_days = now']
            /\ now' - db.events[MatchingDiploEvent(db, k[1], k[2], k[3])]
                        .end_date_days > StaleDays
               => /\ Cardinality(DiploEventsOf(db', k))
                     = Cardinality(DiploEventsOf(db, k)) + 1
                  /\ \A i \in DiploEventsOf(db, k) : db'.events[i] = db.events[i]
                  /\ \A i \in DiploEventsOf(db', k) \ DiploEventsOf(db, k) :
                        /\ db'.events[i].start_date_days = now'
                        /\ db'.events[i].end_date_days = now']_vars

\* C5 witness: an event of a triple was extended from day 0 to day 360, and a
\* second event of the triple was created more than 1800 days after that.
C5_Witness ==
    /\ ret = "committed"
    /\ \E i, j \in Rows(db.events) :
          /\ db.events[i].event_type = db.events[j].event_type
          /\ db.events[i].country = db.events[j].country
          /\ db.events[i].target_country = db.events[j].target_country
          /\ db.events[i].target_country # NoneId
          /\ db.events[i].start_date_days = 0
          /\ db.events[i].end_date_days = 360
          /\ db.events[j].start_date_days = now
          /\ db.events[j].end_date_days = now
          /\ now - 360 > StaleDays

\* the scenario of C6: a country first processed at day 0 and next at day 360
\* with other civics, its ruler known in both passes
ReformScenario(c) ==
    /\ calls = 2 /\ prev_ret = "committed" /\ ret = "committed"
    /\ prev_snap.date = Day0 /\ snap.date = Day360
    /\ c \in Processed(prev_snap) /\ c \in Processed(snap)
    /\ prev_snap.country[c].civics # snap.country[c].civics
    /\ _get_current_ruler(db, snap.country[c]) # NoneId

ReformEvents(c) ==
    {i \in Rows(db.events) : db.events[i].event_type = "government_reform"
                             /\ db.events[i].country = c}

ReformOutcome(c, first_start) ==
    /\ Cardinality(GovernmentsOf(db, c)) = 2
    /\ \E i \in GovernmentsOf(db, c) :
          /\ db.governments[i].start_date_days = first_start
          /\ db.governments[i].end_date_days = 359
    /\ \E i \in GovernmentsOf(db, c) :
          /\ db.governments[i].start_date_days = 359
          /\ db.governments[i].end_date_days >= 360
    /\ Cardinality(ReformEvents(c)) = 1
    /\ \A i \in ReformEvents(c) :
          /\ db.events[i].start_date_days = 360
          /\ db.events[i].leader = snap.country[c].ruler

\* C6 as claimed: first seen at day 0, next seen at day 360 with other civics,
\* the country has two Government rows, one from day 0 to day 359 and one
\* open from day 359, and one government_reform event, of day 360.
C6_AsClaimed ==
    \A c \in DOMAIN snap.country : ReformScenario(c) => ReformOutcome(c, 0)

\* C6 amended: in that scenario the closed Government row runs from day -1
\* (the day before the first snapshot) to day 359; the rest is as claimed.
C6_ReformScenario ==
    \A c \in DOMAIN snap.country : ReformScenario(c) => ReformOutcome(c, 0 - 1)

\* C6 witness: the scenario happened.
C6_Witness == \E c \in DOMAIN snap.country : ReformScenario(c)

\* C7: every Government row and every SystemOwnership row ends no earlier
\* than it starts.
C7_EndNotBeforeStart ==
    /\ \A i \in Rows(db.governments) :
          db.governments[i].end_date_days >= db.governments[i].start_date_days
    /\ \A i \in Rows(db.system_ownership) :
          db.system_ownership[i].end_date_days
              >= db.system_ownership[i].start_date_days

\* C7 witness: a day was processed again with another owner of the system and
\* other civics, which closed an ownership and a Government on the day they
\* started; a later day then extended the rows that followed them.
C7_Witness ==
    /\ \E i \in Rows(db.system_ownership) :
          db.system_ownership[i].end_date_days
              = db.system_ownership[i].start_date_days
    /\ \E i \in Rows(db.system_ownership) :
          db.system_ownership[i].end_date_days
              > db.system_ownership[i].start_date_days + 1
    /\ \E i \in Rows(db.governments) :
          db.governments[i].end_date_days = db.governments[i].start_date_days
    /\ \E i \in Rows(db.governments) :
          db.governments[i].end_date_days
              > db.governments[i].start_date_days + 2

\* C8: after a committed pass at day d every country has at most one
\* Government row whose end day is not before d.
C8_OneOpenGovernment ==
    ret = "committed" =>
        \A c \in DOMAIN snap.country :
            Cardinality({i \in GovernmentsOf(db, c) :
                            db.governments[i].end_date_days >= now}) <= 1

\* C9: no two SharedDescription rows hold the same text.
C9_DescriptionsUnique ==
    \A i, j \in Rows(db.descriptions) :
        i # j => db.descriptions[i] # db.descriptions[j]

\* C9 witness: a text was asked for twice in one pass (the type of a
\* pseudo-faction, for two countries) and again in a later snapshot (the name
\* of a budget line).
C9_Witness ==
    /\ \E i, j \in Rows(db.factions) :
          /\ db.factions[i].country # db.factions[j].country
          /\ db.factions[i].faction_type = db.factions[j].faction_type
          /\ \E k \in Rows(db.descriptions) :
                db.descriptions[k] = db.factions[i].faction_type
    /\ \E i, j \in Rows(db.budget_items) :
          /\ db.budget_items[i].date # db.budget_items[j].date
          /\ db.budget_items[i].name = db.budget_items[j].name
          /\ \E k \in Rows(db.descriptions) :
                db.descriptions[k] = db.budget_items[i].name

Ambiguous(g) == Cardinality({g.player[i].country : i \in DOMAIN g.player}) > 1

\* C11: a call whose player list names more than one country returns without
\* a session and leaves the store as it was; the call after it, given a tree
\* with one player country, opens a session, and when it commits the store
\* holds the GameState of its day and a CountryData row of that day for every
\* country it processed.
C11_AmbiguousPlayerSkipped ==
    [][/\ Ambiguous(snap') => (ret' = "skipped" /\ db' = db)
       /\ (ret = "skipped" /\ ~Ambiguous(snap'))
            => /\ ret' \in {"committed", "raised", "swallowed"}
               /\ ret' = "committed"
                    => /\ \E i \in Rows(db'.game_states) :
                              db'.game_states[i].date = now'
                       /\ \A c \in Processed(snap') :
                              CountryDataOf(db', c, now') # {}]_vars

\* C11 witness: a tree with two player countries was skipped when the store
\* already held a snapshot, and the next call committed a later snapshot.
C11_Witness ==
    /\ calls = 3 /\ prev_ret = "skipped" /\ ret = "committed"
    /\ Ambiguous(prev_snap)
    /\ Cardinality(Rows(db.game_states)) = 2

\* the while loop of token_value_stream has ended
StreamEnded == start_index >= Len(gamestate)

\* the read position, after the whitespace at it, is inside the text and no
\* pattern matches there
Unmatched ==
    /\ start_index + WHITESPACE(gamestate, start_index) < Len(gamestate)
    /\ FirstMatch(REG_EXES(gamestate,
                           start_index + WHITESPACE(gamestate, start_index)))
           = NoMatch

\* C12: an iteration that finds no pattern matching after the whitespace
\* stops the lexing: no further iteration follows it.
C12_UnmatchedStopsLexing ==
    [][(Unmatched /\ iterations' = iterations + 1) => StreamEnded']_vars

\* C13: every iteration of the loop that does not end the stream advances
\* the read position.
C13_IterationAdvances ==
    [][(iterations' = iterations + 1 /\ ~StreamEnded')
           => start_index' > start_index]_vars

\* C14: once the event is set the monitor returns, and from then on it does not
\* enter a timed wait: a wait in progress ends, none is begun.
C14_StopEventEndsMonitor ==
    /\ stop_event ~> (pc = "returned")
    /\ [][(stop_event /\ pc # "wait") => pc' # "wait"]_vars

\* C14 witness: the monitor returned after save files were processed and a
\* poll that found nothing new had sent it to the timed wait.
C14_Witness ==
    /\ pc = "returned" /\ stop_event
    /\ calls >= 2
    /\ nothing_new

\* the Country rows flagged as the player's
PlayerCountries(d) == {i \in Rows(d.countries) : d.countries[i].is_player}

\* C15: after every committed snapshot exactly one Country row has
\* is_player = true, also when the player's country id differs between the
\* snapshots
C15_OnePlayerCountry ==
    ret = "committed" => Cardinality(PlayerCountries(db)) = 1

\* the tree g lists a relation of country c towards the player's country
\* with communications
CommunicatesWithPlayer(g, c) ==
    /\ c \in DOMAIN g.country
    /\ \E k \in DOMAIN g.country[c].relation :
          /\ g.country[c].relation[k].country = g.player[1].country
          /\ g.country[c].relation[k].communications

\* C16: first_player_contact_date is set at most once.  The row of the
\* player's country is created with 0; the row of another country is given
\* the day of a snapshot in which its communications with the player are
\* observed; a value that is not null is never changed.
C16_FirstContactOnce ==
    [][/\ \A i \in Rows(db.countries) :
             /\ i \in Rows(db'.countries)
             /\ db.countries[i].first_player_contact_date # NoDay
                  => db'.countries[i].first_player_contact_date
                         = db.countries[i].first_player_contact_date
             /\ db'.countries[i].first_player_contact_date
                     # db.countries[i].first_player_contact_date
                  => /\ db'.countries[i].first_player_contact_date = now'
                     /\ CommunicatesWithPlayer(
                            snap', db.countries[i].country_id_in_game)
       /\ \A i \in Rows(db'.countries) \ Rows(db.countries) :
             IF db'.countries[i].is_player
             THEN db'.countries[i].first_player_contact_date = 0
             ELSE \/ db'.countries[i].first_player_contact_date = NoDay
                  \/ /\ db'.countries[i].first_player_contact_date = now'
                     /\ CommunicatesWithPlayer(
                            snap', db'.countries[i].country_id_in_game)]_vars

\* C16 witness: a country whose first contact was recorded at day 360 is seen
\* communicating with the player again in the committed snapshot of day 2520
\* and keeps day 360.
C16_Witness ==
    /\ calls = 3 /\ ret = "committed" /\ prev_ret = "committed"
    /\ now = 2520 /\ date_to_days(prev_snap.date) = 360
    /\ CommunicatesWithPlayer(prev_snap, 1)
    /\ CommunicatesWithPlayer(snap, 1)
    /\ CountryRow(db, 1) # 0
    /\ db.countries[CountryRow(db, 1)].first_player_contact_date = 360

\* an event of the type from country c towards country tc that ends at the day
DiploEventEndsAt(d, et, c, tc, day) ==
    \E i \in DiploEventsOf(d, <<et, c, tc>>) : d.events[i].end_date_days = day

\* C17: for every relation record in the relation list of a supported
\* country, not only the first one, whose target country is in the store, and
\* every diplomatic predicate that is true in it, the committed pass at day d
\* leaves an event in each direction whose end day is d.
C17_EveryRelationRecorded ==
    [][ret' = "committed" =>
        \A c \in Processed(snap') :
          \A k \in DOMAIN snap'.country[c].relation :
            CountryRow(db, snap'.country[c].relation[k].country) # 0 =>
              \A t \in Range(diplo_relations(snap'.country[c].relation[k])) :
                t[3] => /\ DiploEventEndsAt(
                              db', t[1], c,
                              snap'.country[c].relation[k].country, now')
                        /\ DiploEventEndsAt(
                              db', t[2],
                              snap'.country[c].relation[k].country, c, now')]_vars

\* the attributes of the government in the tree differ from the row
GovDiffers(row, cdict) ==
    \/ cdict.ethic # row.ethics
    \/ cdict.civics # row.civics
    \/ cdict.authority # row.authority
    \/ cdict.gov_type # row.gov_type
    \/ cdict.name # row.gov_name

NewGovernments(c) == GovernmentsOf(db', c) \ GovernmentsOf(db, c)

NewReformEvents(c) ==
    {i \in Rows(db'.events) \ Rows(db.events) :
        /\ db'.events[i].event_type = "government_reform"
        /\ db'.events[i].country = c}

\* C18: when the most recent Government row of a country differs from the
\* snapshot in any one of ethics, civics, authority, type and name, authority
\* alone included, the committed pass closes the row at day - 1, creates one
\* row that starts at day - 1 and emits one government_reform event; when
\* nothing differs it creates no row and no event.
C18_ReformOnAnyChange ==
    [][ret' = "committed" =>
        \A c \in Processed(snap') :
          PrevGov(db, c, now') # 0 =>
            IF GovDiffers(db.governments[PrevGov(db, c, now')], snap'.country[c])
            THEN /\ db'.governments[PrevGov(db, c, now')].end_date_days
                       = now' - 1
                 /\ Cardinality(NewGovernments(c)) = 1
                 /\ \A i \in NewGovernments(c) :
                       db'.governments[i].start_date_days = now' - 1
                 /\ Cardinality(NewReformEvents(c)) = 1
            ELSE /\ NewGovernments(c) = {}
                 /\ NewReformEvents(c) = {}]_vars

\* the events of a type about a leader
LeaderEvents(d, et, leader_id) ==
    {i \in Rows(d.events) : /\ d.events[i].event_type = et
                            /\ d.events[i].leader = leader_id}

\* the tree lists the leader among the owned leaders of its country
StillOwned(g, leader) ==
    /\ leader.country \in DOMAIN g.country
    /\ leader.leader_id_in_game \in Range(g.country[leader.country].owned_leaders)

\* C19: a recorded active leader is marked inactive, with a leader_died
\* event, only when it is no longer in the owned-leader list of its country
\* and has been absent for more than the staleness window; a leader missing
\* for less than the window stays active and gets no leader_died event.
C19_LeaderDiedOnlyWhenStale ==
    [][ret' = "committed" =>
        \A l \in Rows(db.leaders) :
          (/\ db.leaders[l].is_active
           /\ \/ ~db'.leaders[l].is_active
              \/ LeaderEvents(db', "leader_died",
                              db.leaders[l].leader_id_in_game)
                   # LeaderEvents(db, "leader_died",
                                  db.leaders[l].leader_id_in_game))
          => /\ ~StillOwned(snap', db.leaders[l])
             /\ now' - db.leaders[l].last_date > 3 * 360]_vars

\* the owned leaders of the processed countries of the tree that the tree has
\* an entry for
OwnedLeaders(g) ==
    UNION {Range(g.country[c].owned_leaders) \cap DOMAIN g.leaders
            : c \in Processed(g)}

NewLevelUps(leader_id) ==
    LeaderEvents(db', "level_up", leader_id)
        \ LeaderEvents(db, "level_up", leader_id)

\* C20: for every owned leader a committed pass emits a level_up event
\* exactly when the level of the snapshot is above the recorded last_level,
\* and last_level is the observed level afterwards; last_level never
\* decreases; the pass that creates a leader emits no level_up event for it.
C20_LevelUp ==
    [][ret' = "committed" =>
        /\ \A id \in OwnedLeaders(snap') :
              IF LeaderRow(db, id) = 0
              THEN /\ NewLevelUps(id) = {}
                   /\ db'.leaders[LeaderRow(db', id)].last_level
                          = snap'.leaders[id].level
              ELSE IF snap'.leaders[id].level
                         > db.leaders[LeaderRow(db, id)].last_level
              THEN /\ Cardinality(NewLevelUps(id)) = 1
                   /\ db'.leaders[LeaderRow(db, id)].last_level
                          = snap'.leaders[id].level
              ELSE NewLevelUps(id) = {}
        /\ \A l \in Rows(db.leaders) :
              db'.leaders[l].last_level >= db.leaders[l].last_level]_vars

\* C20 witness: leader 10 rose from level 1 to level 2 at day 360, with a
\* level_up event of that day, and the committed snapshot of day 2520 shows
\* level 1 again while the row keeps level 2.
C20_Witness ==
    /\ calls = 3 /\ ret = "committed" /\ prev_ret = "committed"
    /\ now = 2520 /\ date_to_days(prev_snap.date) = 360
    /\ 10 \in OwnedLeaders(prev_snap) /\ prev_snap.leaders[10].level = 2
    /\ 10 \in OwnedLeaders(snap) /\ snap.leaders[10].level = 1
    /\ LeaderRow(db, 10) # 0
    /\ db.leaders[LeaderRow(db, 10)].last_level = 2
    /\ \E i \in LeaderEvents(db, "level_up", 10) :
          db.events[i].start_date_days = 360
    /\ Cardinality(LeaderEvents(db, "level_up", 10)) = 1

\* the War rows of a name
WarsNamed(d, name) == {i \in Rows(d.wars) : d.wars[i].name = name}

\* the War rows of a name that the step adds
NewWars(name) == WarsNamed(db', name) \ WarsNamed(db, name)

\* C21: for each war entry of a snapshot at day d, _extract_wars creates a
\* new War row, in state in_progress, exactly when no War of the name exists
\* or the most recent one is terminal with an end day earlier than d - 1800;
\* when the most recent War of the name is in_progress and the entry has no
\* forced-peace flag, no row is created and its end day is set to d.  The
\* settlement step of the same pass rewrites state and end day when the
\* snapshot has a truce, so those two are read in passes without one.
C21_NewWarExactlyWhen ==
    [][ret' = "committed" =>
        \A k \in DOMAIN snap'.war :
          LET name == snap'.war[k].name
              w == MostRecentWar(db, name)
          IN IF \/ w = 0
                \/ /\ db.wars[w].outcome # "in_progress"
                   /\ db.wars[w].end_date_days < now' - 1800
             THEN /\ Cardinality(NewWars(name)) = 1
                  /\ snap'.truce = <<>> =>
                        \A i \in NewWars(name) :
                            /\ db'.wars[i].outcome = "in_progress"
                            /\ db'.wars[i].end_date_days = now'
             ELSE /\ NewWars(name) = {}
                  /\ (/\ db.wars[w].outcome = "in_progress"
                      /\ ~snap'.war[k].defender_force_peace
                      /\ ~snap'.war[k].attacker_force_peace
                      /\ snap'.truce = <<>>)
                     => db'.wars[w].end_date_days = now']_vars

\* C21 witness: a war settled at day 360 is listed again at day 2520, which
\* added a second War row of the name, in progress; the first pass had
\* extended nothing and created the first row.
C21_Witness ==
    /\ calls = 3 /\ ret = "committed" /\ now = 2520
    /\ snap.war # <<>> /\ snap.truce = <<>>
    /\ Cardinality(WarsNamed(db, "Border War")) = 2
    /\ \E i, j \in WarsNamed(db, "Border War") :
          /\ db.wars[i].outcome \notin {"in_progress", "unknown"}
          /\ db.wars[i].end_date_days = 360
          /\ db.wars[j].outcome = "in_progress"
          /\ db.wars[j].end_date_days = 2520

\* the WarParticipant rows and the war events of a War row and a country
ParticipantsOf(d, w, c) ==
    {i \in Rows(d.war_participants) : /\ d.war_participants[i].war = w
                                      /\ d.war_participants[i].country = c}

WarEventsOf(d, w, c) ==
    {i \in Rows(d.events) : /\ d.events[i].event_type = "war"
                            /\ d.events[i].war = w
                            /\ d.events[i].country = c}

\* the War row the entry of the tree is recorded in by the step
RecordedWar(name) ==
    IF NewWars(name) # {} THEN Min(NewWars(name)) ELSE MostRecentWar(db, name)

\* C22: while a war stays listed, each pair of a War row and a participating
\* country has exactly one WarParticipant row and exactly one war event,
\* both created in the first pass that sees the participant; later passes
\* create neither again and leave both as they are.
C22_OneParticipantRow ==
    [][ret' = "committed" =>
        /\ \A w \in Rows(db'.wars) : \A c \in DOMAIN snap'.country :
              /\ Cardinality(ParticipantsOf(db', w, c)) <= 1
              /\ Cardinality(WarEventsOf(db', w, c))
                    = Cardinality(ParticipantsOf(db', w, c))
              /\ ParticipantsOf(db, w, c) # {} =>
                    /\ ParticipantsOf(db', w, c) = ParticipantsOf(db, w, c)
                    /\ WarEventsOf(db', w, c) = WarEventsOf(db, w, c)
                    /\ \A i \in WarEventsOf(db, w, c) :
                          db'.events[i] = db.events[i]
        /\ \A k \in DOMAIN snap'.war :
              \A c \in Range(snap'.war[k].attackers)
                        \cup Range(snap'.war[k].defenders) :
                db'.wars[RecordedWar(snap'.war[k].name)].outcome = "in_progress"
                  => Cardinality(ParticipantsOf(
                         db', RecordedWar(snap'.war[k].name), c)) = 1]_vars

\* C22 witness: the war was listed in the snapshots of day 0, day 360 and
\* day 2520; its one War row has one WarParticipant row and one war event,
\* of day 0, for each of the two countries.
C22_Witness ==
    /\ calls = 3 /\ ret = "committed" /\ prev_ret = "committed"
    /\ now = 2520 /\ date_to_days(prev_snap.date) = 360
    /\ snap.war # <<>> /\ prev_snap.war # <<>>
    /\ Cardinality(Rows(db.wars)) = 1
    /\ db.wars[1].end_date_days = 2520
    /\ \A c \in {0, 1} :
          /\ Cardinality(ParticipantsOf(db, 1, c)) = 1
          /\ \E i \in WarEventsOf(db, 1, c) : db.events[i].start_date_days = 0

\* the War rows the settlement step of the pass resolved: in progress before
\* (or added by the pass), settled after, and not listed with a forced-peace
\* flag, which _extract_wars would have settled
SettledBySettlement ==
    {w \in Rows(db'.wars) :
        /\ w \in Rows(db.wars) => db.wars[w].outcome = "in_progress"
        /\ db'.wars[w].outcome # "in_progress"
        /\ \A k \in DOMAIN snap'.war :
              snap'.war[k].name = db'.wars[w].name
                => /\ ~snap'.war[k].defender_force_peace
                   /\ ~snap'.war[k].attacker_force_peace}

\* the outcome the claim derives from the accumulated exhaustion
ByExhaustion(d, w) ==
    IF attacker_war_exhaustion(d, w) < defender_war_exhaustion(d, w)
    THEN "attacker_victory"
    ELSE IF attacker_war_exhaustion(d, w) > defender_war_exhaustion(d, w)
    THEN "defender_victory"
    ELSE "status_quo"

TruceNames(g, name) ==
    \E k \in DOMAIN g.truce : /\ g.truce[k].name = name
                               /\ g.truce[k].truce_type = "war"

\* C23 as claimed: whenever the settlement step resolves a war in progress,
\* because of a truce or because it is stale, the outcome is the one the
\* accumulated exhaustion gives.
C23_AsClaimed ==
    [][ret' = "committed" =>
        \A w \in SettledBySettlement :
            db'.wars[w].outcome = ByExhaustion(db', w)]_vars

\* C23 amended: a war in progress that a war-type truce of the snapshot
\* names gets the outcome the accumulated exhaustion gives; a war in
\* progress that is resolved as stale gets the outcome unknown, whatever the
\* exhaustion.
C23_SettlementOutcome ==
    [][ret' = "committed" =>
        \A w \in SettledBySettlement :
            \/ /\ TruceNames(snap', db'.wars[w].name)
               /\ db'.wars[w].outcome = ByExhaustion(db', w)
            \/ /\ w \in Rows(db.wars)
               /\ db.wars[w].end_date_days < now' - 1800
               /\ db'.wars[w].outcome = "unknown"]_vars

\* C23 witness: a war with more exhaustion on the attackers' side was in
\* progress before, was not listed at day 2520 and is settled as unknown.
C23_Witness ==
    /\ ret = "committed" /\ now = 2520
    /\ snap.war = <<>> /\ snap.truce = <<>>
    /\ \E w \in Rows(db.wars) :
          /\ db.wars[w].outcome = "unknown"
          /\ attacker_war_exhaustion(db, w) > defender_war_exhaustion(db, w)

\* the peace events of a War row and a country
PeaceEventsOf(d, w, c) ==
    {i \in Rows(d.events) : /\ d.events[i].event_type = "peace"
                            /\ d.events[i].war = w
                            /\ d.events[i].country = c}

\* C24: after every committed pass every War row whose outcome is not
\* in_progress, however it was resolved (truce, staleness or a forced-peace
\* flag), has exactly one peace event for each of its participants, and no
\* pair of a war and a country has more than one peace event.
C24_OnePeaceEvent ==
    ret = "committed" =>
        /\ \A w \in Rows(db.wars) :
              db.wars[w].outcome # "in_progress" =>
                \A p \in Rows(db.war_participants) :
                  db.war_participants[p].war = w =>
                    Cardinality(PeaceEventsOf(
                        db, w, db.war_participants[p].country)) = 1
        /\ \A w \in Rows(db.wars) : \A c \in DOMAIN snap.country :
              Cardinality(PeaceEventsOf(db, w, c)) <= 1

\* the snapshot lists a war of the name
Listed(g, name) == \E k \in DOMAIN g.war : g.war[k].name = name

CombatsOf(d, w, b) ==
    {i \in Rows(d.combats) :
        /\ d.combats[i].war = w
        /\ d.combats[i].system = b.system
        /\ d.combats[i].planet = b.planet
        /\ d.combats[i].combat_type = b.type
        /\ d.combats[i].attacker_victory = (b.attacker_victory = "yes")
        /\ d.combats[i].attacker_war_exhaustion = b.attacker_war_exhaustion
        /\ d.combats[i].defender_war_exhaustion = b.defender_war_exhaustion}

\* the combat events of a war of one type of battle
CombatEventsOf(d, w, type) ==
    {i \in Rows(d.events) :
        /\ d.events[i].war = w
        /\ d.events[i].event_type
             = IF type = "armies" THEN "army_combat" ELSE "fleet_combat"}

\* C26: a battle record that appears unchanged in consecutive snapshots of a
\* war produces one Combat row and one combat event in total, and a battle
\* whose exhaustion values sum to at most 0.001 and whose type is not armies
\* never produces a Combat row.  (The save files of the model have at most
\* one recorded battle of each type, so the events are counted by type.)
C26_OneCombatPerBattle ==
    [][ret' = "committed" =>
        /\ \A k \in DOMAIN snap'.war :
            \A n \in DOMAIN snap'.war[k].battles :
              LET b == snap'.war[k].battles[n]
                  w == RecordedWar(snap'.war[k].name)
              IN IF /\ b.attacker_war_exhaustion + b.defender_war_exhaustion <= 1
                    /\ b.type # "armies"
                 THEN CombatsOf(db', w, b) = {}
                 ELSE /\ Cardinality(CombatsOf(db', w, b)) = 1
                      /\ Cardinality(CombatEventsOf(db', w, b.type)) = 1
                      /\ CombatsOf(db, w, b) # {} =>
                            /\ CombatsOf(db', w, b) = CombatsOf(db, w, b)
                            /\ CombatEventsOf(db', w, b.type)
                                 = CombatEventsOf(db, w, b.type)
        /\ \A i \in Rows(db'.combats) :
              \/ db'.combats[i].combat_type = "armies"
              \/ db'.combats[i].attacker_war_exhaustion
                   + db'.combats[i].defender_war_exhaustion > 1]_vars

\* C26 witness: the same fleet battle was listed in three committed
\* snapshots, the last two also with a skirmish below the threshold; the
\* store has one Combat row and one fleet_combat event.
C26_Witness ==
    /\ calls = 3 /\ ret = "committed" /\ prev_ret = "committed"
    /\ now = 2520 /\ date_to_days(prev_snap.date) = 360
    /\ prev_snap.war[1].battles = <<Battle, Skirmish>>
    /\ snap.war[1].battles = <<Battle, Skirmish>>
    /\ Cardinality(Rows(db.wars)) = 1
    /\ db.wars[1].end_date_days = 2520
    /\ Cardinality(Rows(db.combats)) = 1
    /\ Cardinality(CombatEventsOf(db, 1, "ships")) = 1
    /\ \A i \in CombatEventsOf(db, 1, "ships") : db.events[i].start_date_days = 0

\* the SystemOwnership rows of a system that the step adds
NewOwnerships(system) ==
    {i \in Rows(db'.system_ownership) \ Rows(db.system_ownership) :
        db'.system_ownership[i].system = system}

\* the events of a type about a system and a country that the step adds
NewSystemEvents(et, system, c) ==
    {i \in Rows(db'.events) \ Rows(db.events) :
        /\ db'.events[i].event_type = et
        /\ db'.events[i].system = system
        /\ db'.events[i].country = c}

\* the SystemOwnership of the system with the latest end day before the step
MostRecentOwnership(system) ==
    LET I == {i \in Rows(db.system_ownership) :
                db.system_ownership[i].system = system}
    IN FirstDesc(I, [i \in I |-> db.system_ownership[i].end_date_days])

OwnershipEventTypes == {"expanded_to_system", "gained_system", "lost_system"}

\* the step adds one SystemOwnership of the system, for country c from day
NewOwnershipFor(system, c, day) ==
    /\ Cardinality(NewOwnerships(system)) = 1
    /\ \A i \in NewOwnerships(system) :
          /\ db'.system_ownership[i].country = c
          /\ db'.system_ownership[i].start_date_days = day

\* the step adds these ownership events about the system and no others
OnlySystemEvents(system, expected) ==
    \A et \in OwnershipEventTypes : \A c \in DOMAIN snap'.country :
        Cardinality(NewSystemEvents(et, system, c))
            = IF <<et, c>> \in expected THEN 1 ELSE 0

\* C27: in _extract_system_ownership at day d, for a system whose starbase
\* owner is country C: when the most recent SystemOwnership of the system
\* belongs to C, its end day is set to d and no row or event is created; when
\* it belongs to another country P, P's row is closed at d, one row for C
\* starting at d is created, and one gained_system event for C and one
\* lost_system event for P are emitted; when the system has no ownership
\* row, a row for C and one expanded_to_system event are created.
C27_OwnershipCases ==
    [][ret' = "committed" =>
        \A k \in DOMAIN snap'.starbases :
          LET system == snap'.starbases[k].system
              C == snap'.starbases[k].owner
              o == MostRecentOwnership(system)
          IN (HasSystem(db', system) /\ CountryRow(db', C) # 0) =>
               IF o = 0
               THEN /\ NewOwnershipFor(system, C, now')
                    /\ OnlySystemEvents(system, {<<"expanded_to_system", C>>})
               ELSE IF db.system_ownership[o].country = C
               THEN /\ db'.system_ownership[o].end_date_days = now'
                    /\ NewOwnerships(system) = {}
                    /\ OnlySystemEvents(system, {})
               ELSE /\ db'.system_ownership[o].end_date_days = now'
                    /\ NewOwnershipFor(system, C, now')
                    /\ OnlySystemEvents(
                          system,
                          {<<"gained_system", C>>,
                           <<"lost_system", db.system_ownership[o].country>>})]_vars

\* C27 witness: the system was first owned by one country (expanded), then
\* taken by the other at day 360 (gained and lost), and the third committed
\* pass saw the same owner again.
C27_Witness ==
    /\ calls = 3 /\ ret = "committed" /\ prev_ret = "committed"
    /\ now = 360
    /\ snap.starbases # <<>> /\ snap.starbases = prev_snap.starbases
    /\ Cardinality(Rows(db.system_ownership)) = 2
    /\ \E i \in Rows(db.events) :
          /\ db.events[i].event_type = "expanded_to_system"
          /\ db.events[i].start_date_days = 0
    /\ \E i, j \in Rows(db.events) :
          /\ db.events[i].event_type = "gained_system"
          /\ db.events[j].event_type = "lost_system"
          /\ db.events[i].start_date_days = 360
          /\ db.events[j].country = db.events[i].target_country

\* C28: after any sequence of snapshots processed in non-decreasing day
\* order, the same day again included, every ruled_empire event ends no
\* earlier than it starts.
C28_RulerEventEndsAfterStart ==
    \A i \in Rows(db.events) :
        db.events[i].event_type = "ruled_empire"
            => db.events[i].end_date_days >= db.events[i].start_date_days

\* the pairs of a diplomatic event and a governed_sector event with the same
\* end day that the snapshot of the step observes again: the event the
\* diplomacy handler matches for an observed relation, and the latest event
\* of a sector the snapshot lists with the governor of the event
SameGapPairs ==
    {<<i, j>> \in Rows(db.events) \X Rows(db.events) :
        /\ \E k \in ObservedDiplo(db, snap') :
              i = MatchingDiploEvent(db, k[1], k[2], k[3])
        /\ db.events[j].event_type = "governed_sector"
        /\ \A n \in Rows(db.events) :
              db.events[n].event_type = "governed_sector"
                => db.events[n].end_date_days <= db.events[j].end_date_days
        /\ \E c \in Processed(snap') : \E n \in DOMAIN snap'.sectors :
              /\ n \in Range(snap'.country[c].owned_sectors)
              /\ snap'.sectors[n].name = db.events[j].description
              /\ snap'.sectors[n].governor = db.events[j].leader
        /\ db.events[i].end_date_days = db.events[j].end_date_days}

\* C29: the 1800-day staleness rule decides between extending a record and
\* creating a new one identically for every kind of fact: for the same gap
\* between the recorded end day and the day of the pass, a gap of exactly
\* 1800 days included, a diplomatic event is extended exactly when a
\* governed_sector event is.
C29_SameStalenessRule ==
    [][ret' = "committed" =>
        \A p \in SameGapPairs :
            (db'.events[p[1]].end_date_days = now')
                <=> (db'.events[p[2]].end_date_days = now')]_vars

\* the store has a capital_relocation event recorded without a planet
CapitalWithoutPlanet(d) ==
    \E i \in Rows(d.events) : /\ d.events[i].event_type = "capital_relocation"
                               /\ d.events[i].planet = NoneId

\* C30: a capital planet without a Planet row is tolerated: the snapshot
\* that observes it is committed, and a capital_relocation event recorded
\* without a planet never makes a later pass fail.
C30_MissingCapitalTolerated ==
    [][/\ (/\ ~Ambiguous(snap')
           /\ \E c \in Processed(snap') :
                 /\ _get_current_ruler(db', snap'.country[c]) # NoneId
                 /\ PlanetRow(db', snap'.country[c].capital) = 0
                 /\ ~CapitalWithoutPlanet(db))
          => ret' = "committed"
       /\ (~Ambiguous(snap') /\ CapitalWithoutPlanet(db))
          => ret' = "committed"]_vars

-----------------------------------------------------------------------------
(* C31 *)

\* the parties of the war entries of the save file
Parties(g) ==
    UNION {Range(g.war[k].attackers) \cup Range(g.war[k].defenders)
              : k \in DOMAIN g.war}

\* the parties of the latest save file that are in the country section and
\* have no Country row
PartiesWithoutCountry ==
    {c \in Parties(snap) \cap DOMAIN snap.country :
        ~snap.country[c].is_dict /\ CountryRow(db, c) = 0}

\* C31: when a party of a war is in the country section of the save file and
\* has no Country row, the save file is committed, the party has neither a
\* WarParticipant row nor a war event, and every other party of the war that
\* has a Country row has its WarParticipant row
C31_MissingCountryDropped ==
    (calls > 0 /\ ~Ambiguous(snap) /\ PartiesWithoutCountry # {}) =>
        /\ ret = "committed"
        /\ \A k \in DOMAIN snap.war :
              \A c \in Range(snap.war[k].attackers)
                        \cup Range(snap.war[k].defenders) :
                  LET W == WarsNamed(db, snap.war[k].name)
                  IN IF c \in PartiesWithoutCountry
                     THEN \A w \in W : /\ ParticipantsOf(db, w, c) = {}
                                        /\ WarEventsOf(db, w, c) = {}
                     ELSE CountryRow(db, c) # 0 =>
                              \E w \in W :
                                  Cardinality(ParticipantsOf(db, w, c)) = 1

-----------------------------------------------------------------------------
(* C32 *)

\* the countries of the save file whose type the pass does not read
Unsupported(g) ==
    {c \in DOMAIN g.country :
        /\ g.country[c].is_dict
        /\ g.country[c].type \notin SUPPORTED_COUNTRY_TYPES}

\* the rows of a table that belong to the country
RowsOfCountry(d, table, c) == SelectSeq(d[table], LAMBDA r : r.country = c)

\* the events of the country with a type of the set
EventsOfCountry(d, c, types) ==
    SelectSeq(d.events, LAMBDA e : e.country = c /\ e.event_type \in types)

\* the tables and the event types the country loop writes for the country
\* it is at
LoopTables == {"country_data", "budget_items", "governments", "leaders",
               "factions"}

LoopEventTypes ==
    {"leader_recruited", "leader_died", "level_up", "government_reform",
     "colonization", "habitat_ringworld_construction", "governed_sector",
     "discovered_new_system", "new_faction", "faction_leader",
     "capital_relocation", "ruled_empire"}

\* the event types of the diplomatic relations
DiploEventTypes ==
    {"sent_rivalry", "received_rivalry", "closed_borders",
     "received_closed_borders", "defensive_pact", "formed_federation",
     "non_aggression_pact", "first_contact", "commercial_pact"}

\* C32 as the claim states it: a committed pass leaves every record of a
\* country of an unsupported type as it was, the Country row apart; diplomatic
\* events are among the records
C32_AsClaimed ==
    [][\A c \in Unsupported(snap') :
          ret' = "committed" =>
              /\ CountryRow(db', c) # 0
              /\ \A table \in LoopTables :
                    RowsOfCountry(db', table, c)
                        = RowsOfCountry(DeleteGameState(db, now'), table, c)
              /\ EventsOfCountry(db', c, LoopEventTypes \cup DiploEventTypes)
                    = EventsOfCountry(db, c, LoopEventTypes \cup DiploEventTypes)
     ]_vars

\* C32: a committed pass creates or keeps the Country row of a country of an
\* unsupported type and creates or changes no CountryData, budget item,
\* Government, Leader or faction of that country and no event the country
\* loop writes for the country it is at; the diplomatic events another
\* country's relation to it gives it are not covered
C32_SkippedCountryUntouched ==
    [][\A c \in Unsupported(snap') :
          ret' = "committed" =>
              /\ CountryRow(db', c) # 0
              /\ \A table \in LoopTables :
                    RowsOfCountry(db', table, c)
                        = RowsOfCountry(DeleteGameState(db, now'), table, c)
              /\ EventsOfCountry(db', c, LoopEventTypes)
                    = EventsOfCountry(db, c, LoopEventTypes)
     ]_vars

\* a committed pass over an enclave the player is in contact with: the enclave
\* has its Country row and a first_contact event, and no Government
C32_Witness ==
    /\ ret = "committed"
    /\ \E c \in Unsupported(snap) :
          /\ CountryRow(db, c) # 0
          /\ EventsOfCountry(db, c, {"first_contact"}) # <<>>
          /\ RowsOfCountry(db, "governments", c) = <<>>

-----------------------------------------------------------------------------
(* C33 *)

\* the population units of the latest save file on planets of the player
PlayerPops ==
    {i \in DOMAIN snap.pop :
        snap.pop[i].planet \in snap.country[snap.player[1].country].owned_planets}

\* the faction id C33 gives a population unit
ClaimedFactionId(pop_dict) ==
    IF pop_dict.pop_faction # NoFaction THEN pop_dict.pop_faction
    ELSE IF pop_dict.enslaved THEN 0 - 2
    ELSE IF snap.species[pop_dict.species_index + 1].class = "ROBOT"
    THEN 0 - 4
    ELSE 0 - 1

\* the PopStatsByFaction rows of the latest pass for the faction id
StatsOfFaction(faction_id) ==
    {i \in Rows(db.pop_stats_by_faction) :
        /\ db.pop_stats_by_faction[i].date = now
        /\ db.pop_stats_by_faction[i].country = snap.player[1].country
        /\ db.pop_stats_by_faction[i].faction = faction_id}

\* C33: after a committed pass every faction id has one PopStatsByFaction row
\* of the pass that counts the player's population units which name that id,
\* or which name no faction and are enslaved (id -2), are not enslaved and of
\* a robot species (id -4), or neither (id -1); an id that no unit is counted
\* under has no row
C33_PopFactionId ==
    (ret = "committed" /\ ~Ambiguous(snap)) =>
        \A faction_id \in {0 - 1, 0 - 2, 0 - 3, 0 - 4, 3} :
            LET counted == {i \in PlayerPops :
                               ClaimedFactionId(snap.pop[i]) = faction_id}
            IN IF counted = {} THEN StatsOfFaction(faction_id) = {}
               ELSE /\ Cardinality(StatsOfFaction(faction_id)) = 1
                    /\ \A i \in StatsOfFaction(faction_id) :
                          db.pop_stats_by_faction[i].pop_count
                              = Cardinality(counted)

\* a committed pass over an enslaved robot that names no faction, counted
\* under id -2, and over a unit that names faction 3
C33_Witness ==
    /\ ret = "committed"
    /\ \E i \in PlayerPops :
          /\ snap.pop[i].pop_faction = NoFaction
          /\ snap.pop[i].enslaved
          /\ snap.pop[i].species_index = 1
    /\ StatsOfFaction(0 - 2) # {}
    /\ StatsOfFaction(0 - 4) = {}

-----------------------------------------------------------------------------
(* C34 *)

\* the leader_died events the step added for the leader
NewLeaderDied(leader_id) ==
    LeaderEvents(db', "leader_died", leader_id)
        \ LeaderEvents(db, "leader_died", leader_id)

\* C34: a leader a committed pass emits a leader_died event for is inactive
\* when the pass ends, and every owned leader that has an entry in the save
\* file is active when the pass ends and gets no leader_died event in it
C34_DiedMeansInactive ==
    [][ret' = "committed" =>
        /\ \A l \in Rows(db'.leaders) :
              NewLeaderDied(db'.leaders[l].leader_id_in_game) # {}
                  => ~db'.leaders[l].is_active
        /\ \A id \in OwnedLeaders(snap') :
              /\ db'.leaders[LeaderRow(db', id)].is_active
              /\ NewLeaderDied(id) = {}]_vars

-----------------------------------------------------------------------------
(* C35 *)

\* C35 as the claim states it: process_gamestate is entered only while the
\* event is not set
C35_AsClaimed ==
    [][(pc = "process" /\ pc' = "in_call") => ~stop_event]_vars

\* C35: once the event is set the for loop lets no further save file pass
\* its test, and process_gamestate is entered only for a save file that has
\* passed it; so after the event is set at most one call is entered, the one
\* whose test came before the event
C35_NoCallAfterStop ==
    [][/\ (stop_event /\ pc' = "process") => pc = "process"
       /\ (pc' = "in_call" /\ pc # "in_call") => pc = "process"]_vars

\* the event is set while process_gamestate runs and the poll holds a
\* further save file
C35_Witness ==
    /\ stop_event
    /\ pc = "in_call"
    /\ pending > 0

-----------------------------------------------------------------------------
(* C36 *)

\* C36: when f_monitor_saves has returned, save_reader.shutdown() has been
\* called exactly once
C36_ShutdownOnce == pc = "returned" => shutdowns = 1

-----------------------------------------------------------------------------
(* C37 *)

\* the number of line breaks among the first n characters of the text
NewlinesBefore(n) == Cardinality({j \in 1..n : gamestate[j] = "\n"})

\* C37: the line yielded with a token is 1 plus the number of line breaks of
\* the text before the start of the token, and the lines of the stream never
\* decrease
C37_LineOfToken ==
    [][Len(tokens') > Len(tokens) =>
          LET token == tokens'[Len(tokens')]
          IN /\ token[2] = 1 + NewlinesBefore(start_index' - Len(token[1]))
             /\ tokens # <<>> => tokens[Len(tokens)][2] <= token[2]]_vars

-----------------------------------------------------------------------------
(* C39 *)

\* C39: after every process_gamestate call the extractor holds nothing of the
\* snapshot: _gamestate_dict, _session, _current_gamestate,
\* _player_country_id, _date_in_days and the lookup indices are None
C39_NoSnapshotState == calls > 0 => extractor = NewExtractor

-----------------------------------------------------------------------------
(* C38 *)

\* C38: the id fields of the leader dictionaries get_leader_dicts returns are
\* pairwise distinct, also when several leaders share a name
C38_DistinctIds ==
    dicts_returned =>
        \A i, j \in DOMAIN leader_dicts :
            i # j => leader_dicts[i].id # leader_dicts[j].id
====
